---- MODULE Spec2Model ----
(***************************************************************************)
(* stock-pulse: the tiered market-data availability layer.                 *)
(*                                                                         *)
(*   - the durable store (database.py, MarketWatchDB)                      *)
(*   - the hot cache (Redis, config.get_redis)                             *)
(*   - the market clock (utils.is_market_open)                             *)
(*   - the snapshot reader (main.get_market_watch)                         *)
(*   - the price stream session (main.price_websocket)                     *)
(*   - the close-of-day scheduler (main._market_close_watcher)             *)
(*                                                                         *)
(* Python values are tagged so that conversions are visible: None is       *)
(* <<"None">>, a number n is <<"num", n>>, the string str(n) is            *)
(* <<"str", n>>, a JSON text is <<"json", value>>.  Validated float fields  *)
(* (pdv) are plain integers of the model.                                   *)
(***************************************************************************)
EXTENDS Integers, Sequences, FiniteSets, TLC

VARIABLES
    db,         \* the committed rows of the instruments table, in rowid order
    txn,        \* SpecStore: the writer inside save_market_watch_data
    rd,         \* SpecStore: the last get_market_watch_from_db of a reader
    now,        \* wall clock in the market timezone: [day, tod]
    cache,      \* Redis: mw:snapshot, mw:inst:<code>:pdv, mw:inst:<code>:price
    redis_available,  \* config._redis_available: "None", "True" or "False"
    watcher,    \* _market_close_watcher: its position and app.state
    pass,       \* the _save_snapshot_if_valid runs: startup task and daily call
    rs,         \* GET /marketwatch: the request of each reader
    bf,         \* _backfill_snapshot_async: the task each reader's miss started
    sess,       \* /ws/price/{ins_code}: the stream session
    up,         \* fetch_merged_data: one merged fetch, segment by segment
    probe,      \* the last call of is_market_open with an explicit time
    life,       \* lifespan: "running" until the shutdown has completed
    hist        \* history of the run (what the claims speak about)

storeVars == <<txn, rd>>
schedVars == <<watcher, pass, hist>>
readVars == <<rs, bf>>
vars == <<db, txn, rd, now, cache, redis_available, watcher, pass, rs, bf,
          sess, up, probe, life, hist>>

----------------------------------------------------------------------------
(* Bounds of the model *)

\* the longest snapshot handed to the durable store in SpecStore
MaxRecs == 2

\* the last day of a run (days 0..MaxDay; day 0 is a Tuesday)
MaxDay == 2

\* the last tick of a day (ticks 0..LastTick)
LastTick == 3

----------------------------------------------------------------------------
(* Python values *)

None == <<"None">>
IsNone(v) == v[1] = "None"
Num(n) == <<"num", n>>

\* str(x): a number becomes its text, a text stays itself
py_str(v) == IF v[1] = "str" THEN v ELSE <<"str", v[2]>>

\* json.dumps / json.loads of the best-limits list
json_dumps(x) == <<"json", x>>
json_loads(s) == s[2]

Range(s) == {s[i] : i \in 1..Len(s)}

----------------------------------------------------------------------------
(* schemas.py: MarketWatchItem, MarketWatchResponse *)

\* instrument codes that the upstream serves
Ids == {"101", "102"}

\* one level of the bid/ask ladder
BestLimit == [n |-> 1, pmd |-> 10]

\* MarketWatchItem carries no market_type field: pydantic drops the segment
\* tag of an upstream item when the item is validated.
MarketWatchItem(insCode, id, pe, pdv, blDs) ==
    [insCode |-> insCode, id |-> id, pe |-> pe, pdv |-> pdv, blDs |-> blDs]

\* the items the model draws snapshots from: pe absent, a number or a text,
\* id zero or not, with and without a ladder
Items ==
    { MarketWatchItem("101", 0, None, 10, <<>>),
      MarketWatchItem("101", 7, Num(5), 20, <<BestLimit>>),
      MarketWatchItem("102", 7, Num(5), 20, <<BestLimit>>),
      MarketWatchItem("102", 0, <<"str", 5>>, 10, <<BestLimit>>) }

MarketWatchResponse(items) == [marketwatch |-> items]

SeqsUpTo(S, n) == UNION {[1..k -> S] : k \in 0..n}

Snapshots == {MarketWatchResponse(s) : s \in SeqsUpTo(Items, MaxRecs)}

InsCodes(mw) == {mw.marketwatch[i].insCode : i \in 1..Len(mw.marketwatch)}

\* one record of the client-type feed: the instrument code and, for the
\* volumes and counts, the first of them
ClientTypeItem(insCode, buy_I_Volume) ==
    [insCode |-> insCode, buy_I_Volume |-> buy_I_Volume]

\* the records the model draws additional data from: two for one served
\* instrument and one for an instrument that no snapshot has
AdditionalItems ==
    { ClientTypeItem("101", 1), ClientTypeItem("101", 2),
      ClientTypeItem("999", 1) }

\* the most records in one answer of the client-type feed
MaxAdditional == 2

AdditionalLists == SeqsUpTo(AdditionalItems, MaxAdditional)

\* get_market_watch_data.py, line 70, and main.py, line 171: the dict that
\* carries the list
AdditionalData(list) == [additional_data |-> list]

----------------------------------------------------------------------------
(* database.py: MarketWatchDB *)

\* one row of the instruments table (the columns the model keeps)
ToRow(inst) ==
    [insCode |-> inst.insCode,
     pe |-> IF IsNone(inst.pe) THEN None ELSE py_str(inst.pe),
     pdv |-> inst.pdv,
     best_limits_json |-> json_dumps(inst.blDs),
     market_type |-> None]

\* INSERT ... ON CONFLICT(insCode) DO UPDATE: the row keeps its place
Upsert(table, row) ==
    IF \E i \in 1..Len(table) : table[i].insCode = row.insCode
    THEN [i \in 1..Len(table) |->
            IF table[i].insCode = row.insCode THEN row ELSE table[i]]
    ELSE Append(table, row)

\* the row -> MarketWatchItem of get_market_watch_from_db: id is the literal 0,
\* pe is the stored text, market_type is dropped by the schema
FromRow(row) ==
    MarketWatchItem(row.insCode, 0, row.pe, row.pdv,
                    IF IsNone(row.best_limits_json) THEN <<>>
                    ELSE json_loads(row.best_limits_json))

get_market_watch_from_db(table) ==
    MarketWatchResponse([i \in 1..Len(table) |-> FromRow(table[i])])

get_pdv_by_ins_code_Missing(table, ins_code) == None
\* SELECT pdv FROM instruments WHERE insCode = ?  (None when no row matches)
get_pdv_by_ins_code(table, ins_code) ==
    IF \E i \in 1..Len(table) : table[i].insCode = ins_code
    THEN Num(table[CHOOSE i \in 1..Len(table) : table[i].insCode = ins_code].pdv)
    ELSE None

\* the statements of the transaction of save_market_watch_data, on the pair
\* (rows other connections see, rows of the open transaction)
NoTxn == <<"NoTxn">>

RejectEmpty_Never(data) == FALSE
\* line 108-111: a snapshot of zero records is rejected before BEGIN
RejectEmpty(data) == Len(data.marketwatch) = 0

OpBegin(st) == [committed |-> st.committed, work |-> st.committed]

OpDelete_Kept(st) == st
OpDelete_Autocommit(st) == [committed |-> <<>>, work |-> <<>>]
\* DELETE FROM instruments, inside the transaction
OpDelete(st) == [committed |-> st.committed, work |-> <<>>]

\* one row of executemany
OpInsert(st, inst) ==
    [committed |-> st.committed, work |-> Upsert(st.work, ToRow(inst))]

OpCommit(st) == [committed |-> st.work, work |-> NoTxn]

OpRollback(st) == [committed |-> st.committed, work |-> NoTxn]

NoRead == [valid |-> FALSE, snap |-> MarketWatchResponse(<<>>), afterWrite |-> FALSE]
Idle == [pc |-> "idle", work |-> NoTxn, data |-> MarketWatchResponse(<<>>),
         k |-> 0, before |-> <<>>, ret |-> 0, began |-> FALSE, failed |-> FALSE]

\* the tables a store can hold: what a sequence of writes leaves behind
RECURSIVE InsertAll(_, _, _)
InsertAll(st, items, k) ==
    IF k = 0 THEN st
    ELSE OpInsert(InsertAll(st, items, k - 1), items[k])

Tables == {InsertAll([committed |-> <<>>, work |-> <<>>], s.marketwatch,
                     Len(s.marketwatch)).work : s \in Snapshots}

----------------------------------------------------------------------------
(* config.py, utils.py: the market clock *)

\* MARKET_OPEN_TIME = time(9, 0) and MARKET_CLOSE_TIME = time(12, 30), on the
\* tick scale of the model: tick 0 is before the open, tick LastTick after
\* the close
OpenTick == 1
CloseTick == 2

TRADING_DAYS == {0, 1, 2, 5, 6}

\* datetime.weekday(): Monday is 0; day 0 of a run is a Tuesday, so that a
\* run crosses trading days (Tue, Wed) and a day off (Thu)
weekday(d) == (d + 1) % 7

Days == 0..MaxDay
Ticks == 0..LastTick
Time(d, t) == [day |-> d, tod |-> t]

TimeLT(a, b) == a.day < b.day \/ (a.day = b.day /\ a.tod < b.tod)
TimeGE(a, b) == ~TimeLT(a, b)

\* TEHRAN_TZ against UTC (+03:30), on the tick scale
UtcOffsetTicks == 1

\* a time with an explicit zone, as a caller can hand it in: "tehran",
\* "naive" (no tzinfo) or "utc".  Times without a tz field are Tehran times.
Zones == {"tehran", "naive", "utc"}
ZonedTime(d, t, tz) == [day |-> d, tod |-> t, tz |-> tz]

\* lines 130-133: a naive time is localized (its wall clock is kept), a time
\* of another zone is shifted to the Tehran wall clock
astimezone(check_time) ==
    IF "tz" \in DOMAIN check_time /\ check_time.tz = "utc"
    THEN IF check_time.tod + UtcOffsetTicks > LastTick
         THEN Time(check_time.day + 1,
                   check_time.tod + UtcOffsetTicks - LastTick - 1)
         ELSE Time(check_time.day, check_time.tod + UtcOffsetTicks)
    ELSE Time(check_time.day, check_time.tod)

is_market_open_AnyDay(check_time) ==
    LET t == astimezone(check_time)
    IN OpenTick <= t.tod /\ t.tod <= CloseTick
is_market_open_Exclusive(check_time) ==
    LET t == astimezone(check_time)
    IN IF weekday(t.day) \notin TRADING_DAYS
       THEN FALSE
       ELSE OpenTick <= t.tod /\ t.tod < CloseTick
is_market_open(check_time) ==
    LET t == astimezone(check_time)
    IN IF weekday(t.day) \notin TRADING_DAYS
       THEN FALSE
       ELSE OpenTick <= t.tod /\ t.tod <= CloseTick

\* the clock advances by one tick
Tick ==
    /\ ~(now.day = MaxDay /\ now.tod = LastTick)
    /\ now' = IF now.tod = LastTick THEN Time(now.day + 1, 0)
              ELSE Time(now.day, now.tod + 1)

----------------------------------------------------------------------------
(* get_market_watch_data.py: the upstream fetcher *)

RawItem(item, market_type) ==
    [insCode |-> item.insCode, id |-> item.id, pe |-> item.pe,
     pdv |-> item.pdv, blDs |-> item.blDs, market_type |-> market_type]

\* what one segment request can give: an error (status, timeout) or a list
SegmentError == [ok |-> FALSE, items |-> <<>>]
SegmentOk(items) == [ok |-> TRUE, items |-> items]

StockSegment ==
    { SegmentError, SegmentOk(<<>>),
      SegmentOk(<<MarketWatchItem("101", 0, None, 10, <<>>)>>),
      SegmentOk(<<MarketWatchItem("101", 7, Num(5), 20, <<BestLimit>>)>>) }

BaseSegment ==
    { SegmentError, SegmentOk(<<>>),
      SegmentOk(<<MarketWatchItem("102", 7, Num(5), 20, <<BestLimit>>)>>) }

\* fetch_market_data: every item is tagged with its market type
fetch_market_data(seg, market_type) ==
    [ok |-> seg.ok,
     items |-> [i \in 1..Len(seg.items) |-> RawItem(seg.items[i], market_type)]]

\* a merge that keeps what the segments that answered gave
fetch_merged_data_Partial(stock, base) ==
    [ok |-> TRUE,
     data |-> [marketwatch |->
                  (IF stock.ok THEN stock.items ELSE <<>>) \o
                  (IF base.ok THEN base.items ELSE <<>>)]]

\* fetch_merged_data: asyncio.gather raises when a segment raises; the lists
\* are concatenated in the order of MARKETWATCH_URLS
fetch_merged_data(stock, base) ==
    LET a == fetch_market_data(stock, "stock_market")
        b == fetch_market_data(base, "base_market")
    IN IF a.ok /\ b.ok
       THEN [ok |-> TRUE, data |-> [marketwatch |-> a.items \o b.items]]
       ELSE [ok |-> FALSE, data |-> [marketwatch |-> <<>>]]

UpstreamOutcomes ==
    {fetch_merged_data(s, b) : s \in StockSegment, b \in BaseSegment}

\* the outcomes the scheduler specifications draw from: an error, an empty
\* market, one instrument
SchedOutcomes ==
    {fetch_merged_data(s, SegmentOk(<<>>)) :
        s \in {SegmentError, SegmentOk(<<>>),
               SegmentOk(<<MarketWatchItem("101", 0, None, 10, <<>>)>>)}}

\* MarketWatchResponse(**data_dict): extra keys of an item are dropped
ValidateItem(raw) ==
    MarketWatchItem(raw.insCode, raw.id, raw.pe, raw.pdv, raw.blDs)

Validate(data_dict) ==
    MarketWatchResponse([i \in 1..Len(data_dict.marketwatch) |->
                            ValidateItem(data_dict.marketwatch[i])])

----------------------------------------------------------------------------
(* config.py: the hot cache *)

REDIS_TTL_SECONDS == 120
\* the literal ex=120 of _save_snapshot_if_valid
SNAPSHOT_EX == 120

\* codes a stream session can ask for: the served ones and an unknown one
Codes == Ids \cup {"999"}

NoEntry == [val |-> None, ex |-> 0]
CacheEntry_NoTTL(val, ex) == [val |-> val, ex |-> 0]
\* r.set(key, val, ex=ex): the key holds val, whatever it held, for ex seconds
CacheEntry(val, ex) == [val |-> val, ex |-> ex]

EmptyCache ==
    [snapshot |-> NoEntry,
     additional |-> NoEntry,
     pdv |-> [c \in Codes |-> NoEntry],
     price |-> [c \in Codes |-> NoEntry]]

get_redis_Retry(avail, connectOk) ==
    IF avail = "True" \/ connectOk THEN [client |-> TRUE, avail |-> "True"]
    ELSE [client |-> FALSE, avail |-> "False"]
\* get_redis(): the client or None; a failed first connection is latched
get_redis(avail, connectOk) ==
    IF avail = "False" THEN [client |-> FALSE, avail |-> "False"]
    ELSE IF avail = "True" THEN [client |-> TRUE, avail |-> "True"]
    ELSE IF connectOk THEN [client |-> TRUE, avail |-> "True"]
    ELSE [client |-> FALSE, avail |-> "False"]

orjson_dumps(x) == <<"json", x>>

\* the pdv of the last item of mw that has the code
LastPdv(mw, code) ==
    LET i == CHOOSE i \in 1..Len(mw.marketwatch) :
                 /\ mw.marketwatch[i].insCode = code
                 /\ \A j \in (i + 1)..Len(mw.marketwatch) :
                        mw.marketwatch[j].insCode # code
    IN mw.marketwatch[i].pdv

\* r.set("mw:snapshot", blob, ex=...)
SetSnapshot(c, blob, ex) == [c EXCEPT !.snapshot = CacheEntry(blob, ex)]

\* the pipeline of pipe.set(f"mw:inst:{it.insCode}:pdv", str(it.pdv), ex=...)
SetPdvKeys(c, mw, ex) ==
    [c EXCEPT !.pdv = [code \in Codes |->
        IF code \in InsCodes(mw)
        THEN CacheEntry(py_str(Num(LastPdv(mw, code))), ex)
        ELSE c.pdv[code]]]

----------------------------------------------------------------------------
(* database.py: save_market_watch_data as one call *)

\* fail: a statement of the transaction raises (here the last one, commit)
save_market_watch_data(table, data, fail) ==
    IF RejectEmpty(data)
    THEN [table |-> table, ret |-> 0]
    ELSE LET n == Len(data.marketwatch)
             st == InsertAll(OpDelete(OpBegin([committed |-> table,
                                               work |-> NoTxn])),
                             data.marketwatch, n)
         IN IF fail
            THEN [table |-> OpRollback(st).committed, ret |-> 0]
            ELSE [table |-> OpCommit(st).committed, ret |-> n]

----------------------------------------------------------------------------
(* main.py: _save_snapshot_if_valid *)

PassIdle == [pc |-> "idle", data_dict |-> [marketwatch |-> <<>>],
             ret |-> 0, fetched |-> FALSE]

Runs == {"startup", "daily"}

\* await fetch_merged_data() returns or raises; on a result the snapshot is
\* validated and handed to the durable store at once
PassFetchReturns(p, outcomes) ==
    /\ pass[p].pc = "fetching"
    /\ \E out \in outcomes, fail \in BOOLEAN :
         IF ~out.ok
         THEN /\ pass' = [pass EXCEPT ![p].pc = "done"]
              /\ UNCHANGED <<db, hist>>
         ELSE LET w == save_market_watch_data(db, Validate(out.data), fail)
              IN /\ db' = w.table
                 /\ pass' = [pass EXCEPT ![p] =
                       [pc |-> "mirror_snapshot", data_dict |-> out.data,
                        ret |-> w.ret, fetched |-> TRUE]]
                 /\ hist' = IF w.ret > 0
                            THEN [hist EXCEPT !.persisted = Validate(out.data)]
                            ELSE hist
    /\ UNCHANGED <<txn, rd, now, cache, redis_available, watcher, rs, bf,
                   sess, up, probe, life>>

\* r = await get_redis(); await r.set("mw:snapshot", ..., ex=120)
PassMirrorSnapshot(p) ==
    /\ pass[p].pc = "mirror_snapshot"
    /\ \E connectOk \in BOOLEAN, opOk \in BOOLEAN :
         LET g == get_redis(redis_available, connectOk)
         IN /\ redis_available' = g.avail
            /\ IF g.client /\ opOk
               THEN /\ cache' = SetSnapshot(cache,
                                   orjson_dumps(pass[p].data_dict), SNAPSHOT_EX)
                    /\ pass' = [pass EXCEPT ![p].pc = "mirror_pdv"]
                    /\ hist' = [hist EXCEPT
                                   !.cached = Validate(pass[p].data_dict)]
               ELSE /\ cache' = cache
                    /\ pass' = [pass EXCEPT ![p].pc = "done",
                             ![p].data_dict = PassIdle.data_dict]
                    /\ hist' = hist
    /\ UNCHANGED <<db, txn, rd, now, watcher, rs, bf, sess, up, probe, life>>

\* await pipe.execute()
PassMirrorPdv(p) ==
    /\ pass[p].pc = "mirror_pdv"
    /\ \E opOk \in BOOLEAN :
         cache' = IF opOk
                  THEN SetPdvKeys(cache, Validate(pass[p].data_dict), SNAPSHOT_EX)
                  ELSE cache
    /\ pass' = [pass EXCEPT ![p].pc = "done",
                           ![p].data_dict = PassIdle.data_dict]
    /\ UNCHANGED <<db, txn, rd, now, redis_available, watcher, hist, rs, bf,
                   sess, up, probe, life>>

----------------------------------------------------------------------------
(* main.py: _market_close_watcher *)

NextClose_Today(t) == Time(t.day, CloseTick)
\* today's close, or tomorrow's when now is at or after it
NextClose(t) ==
    IF TimeGE(t, Time(t.day, CloseTick))
    THEN Time(t.day + 1, CloseTick)
    ELSE Time(t.day, CloseTick)

ShouldPersist_TradingDays(last, today) ==
    last # Num(today) /\ weekday(today) \in TRADING_DAYS
ShouldPersist_Always(last, today) == TRUE
ShouldPersist_Inverted(last, today) == last = Num(today)
\* app.state._last_snapshot_date != now_teh.date()
ShouldPersist(last, today) == last # Num(today)

WatcherInit ==
    [pc |-> "startup", last_market_open |-> "None",
     last_snapshot_date |-> None, target |-> Time(0, 0), wake |-> Time(0, 0),
     add |-> "none"]

HistInit ==
    [started |-> FALSE, start |-> Time(0, 0),
     daily |-> [d \in 0..(MaxDay + 1) |-> 0],
     atClose |-> [d \in 0..(MaxDay + 1) |-> 0],
     skips |-> [d \in 0..(MaxDay + 1) |-> 0],
     cached |-> MarketWatchResponse(<<>>),
     persisted |-> MarketWatchResponse(<<>>)]

Bump(f, d) == [f EXCEPT ![d] = @ + 1]

StartsPass_Always(last_market_open) == TRUE
\* line 511: if not app.state._last_market_open
StartsPass(last_market_open) == ~last_market_open

AtStartup_Dated(w, t) ==
    [w EXCEPT
       !.pc = "sleeping",
       !.last_market_open = IF is_market_open(t) THEN "True" ELSE "False",
       !.last_snapshot_date = IF is_market_open(t) THEN @ ELSE Num(t.day),
       !.target = NextClose(t)]
\* lines 509 and 521-535: what the startup code and the first turn of the
\* loop leave in app.state and in the loop's locals; _last_snapshot_date is
\* not assigned
AtStartup(w, t) ==
    [w EXCEPT
       !.pc = "sleeping",
       !.last_market_open = IF is_market_open(t) THEN "True" ELSE "False",
       !.target = NextClose(t)]

\* lines 508-535: the market state is checked once, a startup pass is started
\* as a task when closed, and the loop goes to sleep until the next close
WatcherStartup ==
    /\ watcher.pc = "startup"
    /\ watcher' = AtStartup(watcher, now)
    /\ pass' = IF StartsPass(is_market_open(now))
               THEN [pass EXCEPT !["startup"].pc = "fetching"]
               ELSE pass
    /\ hist' = [hist EXCEPT !.started = TRUE, !.start = now]
    /\ UNCHANGED <<db, txn, rd, now, cache, redis_available, rs, bf, sess,
                   up, probe, life>>

\* lines 535-541: asyncio.sleep returns at or after the target; the date is
\* compared with the last persisted one
WatcherWake ==
    /\ watcher.pc = "sleeping"
    /\ TimeGE(now, watcher.target)
    /\ IF ShouldPersist(watcher.last_snapshot_date, now.day)
       THEN /\ pass["daily"].pc \in {"idle", "done"}
            /\ watcher' = [watcher EXCEPT !.pc = "save_snapshot",
                                          !.wake = now]
            /\ pass' = [pass EXCEPT !["daily"] =
                           [PassIdle EXCEPT !.pc = "fetching"]]
            /\ hist' = [hist EXCEPT
                   !.daily = Bump(@, now.day),
                   !.atClose = IF now.tod >= CloseTick
                               THEN Bump(@, now.day) ELSE @]
       ELSE /\ watcher' = [watcher EXCEPT !.target = NextClose(now)]
            /\ hist' = [hist EXCEPT !.skips = Bump(@, now.day)]
            /\ pass' = pass
    /\ UNCHANGED <<db, txn, rd, now, cache, redis_available, rs, bf, sess,
                   up, probe, life>>

\* line 542: _save_snapshot_if_valid has returned; the additional data is
\* fetched and saved next
WatcherSaveAdditional ==
    /\ watcher.pc = "save_snapshot"
    /\ pass["daily"].pc = "done"
    /\ watcher' = [watcher EXCEPT !.pc = "save_additional"]
    /\ UNCHANGED <<db, txn, rd, now, cache, redis_available, pass, hist, rs,
                   bf, sess, up, probe, life>>

\* the additional data, as the text of its cache key
AdditionalBlob(data) == orjson_dumps(data)

\* how _save_additional_data_if_valid can end: the fetch raised or timed
\* out, it gave no items, db.save_additional_data raised, or the items were
\* saved
AdditionalOutcomes == {"fetch_failed", "empty", "save_failed", "saved"}

save_additional_data_Shared(table, ok) == IF ok THEN table ELSE <<>>
\* database.py, save_additional_data: DELETE, INSERT, commit or rollback on
\* the additional_data table; the instruments table is not part of it
save_additional_data(table, ok) == table

\* main.py, _save_additional_data_if_valid, lines 470-502, awaited at line
\* 542: every error is caught; with items, the store write is tried and
\* then, whatever it gave, the cache key is set
WatcherAdditionalReturns ==
    /\ watcher.pc = "save_additional"
    /\ watcher.add = "none"
    /\ \E out \in AdditionalOutcomes, connectOk \in BOOLEAN, opOk \in BOOLEAN :
         LET g == get_redis(redis_available, connectOk)
             items == out \in {"save_failed", "saved"}
         IN /\ watcher' = [watcher EXCEPT !.add = out]
            /\ db' = IF items THEN save_additional_data(db, out = "saved")
                     ELSE db
            /\ redis_available' = IF items THEN g.avail ELSE redis_available
            /\ IF items /\ g.client /\ opOk
               THEN \E list \in AdditionalLists \ {<<>>} :
                        cache' = [cache EXCEPT !.additional =
                                    CacheEntry(AdditionalBlob(AdditionalData(list)),
                                               SNAPSHOT_EX)]
               ELSE cache' = cache
    /\ UNCHANGED <<txn, rd, now, pass, hist, rs, bf, sess, up, probe, life>>

\* line 543 and the next turn of the loop up to its sleep
WatcherSetDate ==
    /\ watcher.pc = "save_additional"
    /\ watcher' = [watcher EXCEPT
           !.pc = "sleeping",
           !.last_snapshot_date = Num(watcher.wake.day),
           !.wake = WatcherInit.wake,
           !.add = WatcherInit.add,
           !.target = NextClose(now)]
    /\ UNCHANGED <<db, txn, rd, now, cache, redis_available, pass, hist, rs,
                   bf, sess, up, probe, life>>

----------------------------------------------------------------------------
(* main.py: get_market_watch (GET /marketwatch) and its backfill task *)

Readers == {"r1"}

RSIdle ==
    [pc |-> "idle", status |-> "none", result |-> MarketWatchResponse(<<>>),
     hit |-> FALSE, open |-> FALSE, cachedSeen |-> MarketWatchResponse(<<>>),
     upstream_calls |-> 0, db_reads |-> 0, storeSeen |-> <<>>,
     dbRaised |-> FALSE, cacheFailed |-> FALSE, upRaised |-> FALSE,
     addHit |-> FALSE, additional_data |-> None, merged |-> <<>>]

BFIdle == [pc |-> "idle", mw_resp |-> MarketWatchResponse(<<>>),
           add |-> "idle", additional_data |-> None]

\* a stored text that is neither JSON nor a number
Junk == <<"junk">>
IsJunk(v) == v[1] = "junk"

\* "if r is not None: v = await r.get(key); <decode v>", before its except
\* clause: without a client nothing is asked; the get can raise, and so can
\* the decoding (json.loads, float) of a text that is junk
TryRead(entry, client, opOk) ==
    IF ~client THEN [raised |-> FALSE, val |-> None]
    ELSE IF ~opOk \/ IsJunk(entry.val) THEN [raised |-> TRUE, val |-> None]
    ELSE [raised |-> FALSE, val |-> entry.val]

\* "await r.set(...)" before its except clause
TryWrite(client, opOk) == [raised |-> client /\ ~opOk, val |-> None]

Caught_Reraised(attempt) == attempt
\* except Exception: pass
Caught(attempt) == [raised |-> FALSE, val |-> attempt.val]

Truthy_Never(blob) == FALSE
\* line 84, "if blob:": a stored blob is never the empty text
Truthy(blob) == ~IsNone(blob)

FallbackSource_Inverted(open) == IF open THEN "db_read" ELSE "fetching"
\* lines 92-98: the live upstream when the market is open, the durable store
\* otherwise
FallbackSource(open) == IF open THEN "fetching" ELSE "db_read"

ClosedMarketSnapshot_Empty(table) == MarketWatchResponse(<<>>)
\* line 98: mw_resp = await asyncio.to_thread(db.get_market_watch_from_db)
ClosedMarketSnapshot(table) == get_market_watch_from_db(table)

\* mw_resp.model_dump(): the plain dict of the response
model_dump(mw) == [marketwatch |-> mw.marketwatch]

\* lines 80-98 up to the first await of the fallback: the cache is asked; a
\* hit answers the request, a miss chooses the fallback by the market state
RS_CacheGet(r) ==
    /\ rs[r].pc \in {"idle", "done"}
    /\ bf[r].pc \in {"idle", "done", "failed"}
    /\ \E connectOk \in BOOLEAN, opOk \in BOOLEAN :
         LET g == get_redis(redis_available, connectOk)
             try == TryRead(cache.snapshot, g.client, opOk)
             blob == Caught(try).val
             seen == /\ g.client /\ opOk
                     /\ ~IsNone(cache.snapshot.val)
                     /\ ~IsJunk(cache.snapshot.val)
             failed == ~g.client \/ try.raised
         IN /\ redis_available' = g.avail
            /\ rs' = [rs EXCEPT ![r] =
                 IF Caught(try).raised
                 THEN [RSIdle EXCEPT
                         !.pc = "done", !.status = "error",
                         !.cacheFailed = failed]
                 ELSE IF Truthy(blob)
                 THEN [RSIdle EXCEPT
                         !.pc = "done", !.status = "ok",
                         !.result = Validate(json_loads(blob)),
                         !.hit = seen, !.cachedSeen = hist.cached]
                 ELSE [RSIdle EXCEPT
                         !.pc = FallbackSource(is_market_open(now)),
                         !.hit = seen, !.cachedSeen = hist.cached,
                         !.open = is_market_open(now),
                         !.cacheFailed = failed]]
    /\ bf' = [bf EXCEPT ![r] = BFIdle]
    /\ UNCHANGED <<db, txn, rd, now, cache, watcher, pass, sess, hist, up,
                   probe, life>>

create_task_Dropped(mw_resp) == [handler |-> "done", task |-> BFIdle]
\* lines 93-94, 102-105: the upstream answers or raises (HTTP 500)
create_task_Awaited(mw_resp) ==
    [handler |-> "awaiting",
     task |-> [BFIdle EXCEPT !.pc = "set_snapshot", !.mw_resp = mw_resp]]
\* lines 102-103: asyncio.create_task(_backfill_snapshot_async(mw_resp));
\* return mw_resp.  The task is started and the handler returns at once.
create_task(mw_resp) ==
    [handler |-> "done",
     task |-> [BFIdle EXCEPT !.pc = "set_snapshot", !.mw_resp = mw_resp]]

LiveFetchRaises_FallsBack(table) ==
    [status |-> "ok", result |-> get_market_watch_from_db(table),
     backfill |-> TRUE]
\* lines 93, 104-105: the exception of fetch_merged_data leaves the try
\* block before lines 94-103 and is turned into HTTPException(500)
LiveFetchRaises(table) ==
    [status |-> "error", result |-> RSIdle.result, backfill |-> FALSE]

RS_FetchReturns(r) ==
    /\ rs[r].pc = "fetching"
    /\ \E out \in UpstreamOutcomes :
         IF out.ok
         THEN /\ rs' = [rs EXCEPT
                         ![r].pc = create_task(Validate(out.data)).handler,
                         ![r].status = "ok",
                         ![r].result = Validate(out.data),
                         ![r].upstream_calls = @ + 1]
              /\ bf' = [bf EXCEPT ![r] = create_task(Validate(out.data)).task]
         ELSE LET f == LiveFetchRaises(db)
              IN /\ rs' = [rs EXCEPT ![r].pc = "done",
                                     ![r].status = f.status,
                                     ![r].result = f.result,
                                     ![r].upstream_calls = @ + 1,
                                     ![r].upRaised = TRUE]
                 /\ bf' = IF f.backfill
                          THEN [bf EXCEPT ![r] = create_task(f.result).task]
                          ELSE bf
    /\ UNCHANGED <<db, txn, rd, now, cache, redis_available, watcher, pass,
                   sess, hist, up, probe, life>>

\* lines 98, 102-105: the durable store is read in a worker thread
RS_DbRead(r) ==
    /\ rs[r].pc = "db_read"
    /\ \E ok \in BOOLEAN :
         IF ok
         THEN /\ rs' = [rs EXCEPT
                         ![r].pc = create_task(ClosedMarketSnapshot(db)).handler,
                         ![r].status = "ok",
                         ![r].result = ClosedMarketSnapshot(db),
                         ![r].db_reads = @ + 1,
                         ![r].storeSeen = db]
              /\ bf' = [bf EXCEPT ![r] =
                            create_task(ClosedMarketSnapshot(db)).task]
         ELSE /\ rs' = [rs EXCEPT ![r].pc = "done", ![r].status = "error",
                                  ![r].db_reads = @ + 1,
                                  ![r].storeSeen = db,
                                  ![r].dbRaised = TRUE]
              /\ bf' = bf
    /\ UNCHANGED <<db, txn, rd, now, cache, redis_available, watcher, pass,
                   sess, hist, up, probe, life>>

\* _backfill_snapshot_async, lines 392-397: the snapshot blob
BF_SetSnapshot(r) ==
    /\ bf[r].pc = "set_snapshot"
    /\ \E connectOk \in BOOLEAN, opOk \in BOOLEAN :
         LET g == get_redis(redis_available, connectOk)
         IN /\ redis_available' = g.avail
            /\ IF g.client /\ opOk
               THEN /\ cache' = SetSnapshot(cache,
                                   orjson_dumps(model_dump(bf[r].mw_resp)),
                                   REDIS_TTL_SECONDS)
                    /\ bf' = [bf EXCEPT ![r].pc = "pipeline"]
                    /\ hist' = [hist EXCEPT !.cached = bf[r].mw_resp]
               ELSE /\ bf' = [bf EXCEPT ![r].pc = IF g.client THEN "failed"
                                                    ELSE "done"]
                    /\ UNCHANGED <<cache, hist>>
    /\ UNCHANGED <<db, txn, rd, now, watcher, pass, rs, sess, up, probe,
                   life>>

\* lines 398-401: the per-instrument keys, in one pipeline
BF_Pipeline(r) ==
    /\ bf[r].pc = "pipeline"
    /\ \E opOk \in BOOLEAN :
         /\ cache' = IF opOk
                     THEN SetPdvKeys(cache, bf[r].mw_resp, REDIS_TTL_SECONDS)
                     ELSE cache
         /\ bf' = [bf EXCEPT ![r].pc = IF opOk THEN "done" ELSE "failed"]
    /\ UNCHANGED <<db, txn, rd, now, redis_available, watcher, pass, rs,
                   sess, hist, up, probe, life>>

\* Redis drops an entry when its time to live has run out
CacheExpire ==
    /\ \/ /\ ~IsNone(cache.snapshot.val)
          /\ cache' = [cache EXCEPT !.snapshot = NoEntry]
       \/ \E c \in Codes :
            /\ ~IsNone(cache.pdv[c].val)
            /\ cache' = [cache EXCEPT !.pdv[c] = NoEntry]
       \/ \E c \in Codes :
            /\ ~IsNone(cache.price[c].val)
            /\ cache' = [cache EXCEPT !.price[c] = NoEntry]
    /\ UNCHANGED <<db, txn, rd, now, redis_available, watcher, pass, rs, bf,
                   sess, hist, up, probe, life>>

----------------------------------------------------------------------------
(* main.py: price_websocket (/ws/price), one tick of ReadInstrumentScalar   *)
(* after the other                                                          *)

\* the ins_code a client can connect with: the codes and a non-numeric text
StreamCodes == Codes \cup {"abc"}

\* int(ins_code) succeeds
IsInt(code) == code \in Codes

\* float(v) of a cached text
py_float(v) == Num(v[2])

\* the pDrCotVal the upstream serves for an instrument it knows
LivePrice == 3

\* get_price: the live value, or ValueError on a status other than 200
\* (always for an instrument the upstream does not know) and on a timeout
PriceError == [ok |-> FALSE, value |-> None]
get_price(ins_code) ==
    IF ins_code \in Ids
    THEN {PriceError, [ok |-> TRUE, value |-> Num(LivePrice)]}
    ELSE {PriceError}

\* lines 377-378: if value is None: value = 0.0
Sentinel(value) == IF IsNone(value) THEN Num(0) ELSE value

SessIdle ==
    [pc |-> "idle", ins_code |-> "101", registered |-> FALSE, open |-> FALSE,
     value |-> None, sent |-> None, absent |-> FALSE,
     rdStart |-> "none", rdEnd |-> "none",
     cacheFailed |-> FALSE, fellBack |-> FALSE]

\* where the startup pass is: before its store write has committed, after it
\* has completed with a commit, or in between (or ended without a commit)
PassPhase ==
    IF pass["startup"].pc \in {"idle", "fetching"} THEN "before"
    ELSE IF pass["startup"].pc = "done" /\ pass["startup"].ret > 0 THEN "after"
    ELSE "during"

\* neither the hot cache nor the durable store holds a value for the code
AbsentFromBoth(code) ==
    /\ code \in Codes => IsNone(cache.pdv[code].val)
    /\ code \in Codes => IsNone(cache.price[code].val)
    /\ IsNone(get_pdv_by_ins_code(db, code))

Finally_Missing(s) == s
\* lines 384-385: finally: manager.disconnect(websocket)
Finally(s) == [s EXCEPT !.registered = FALSE]

\* the handler is left: its locals go, the finally clause runs
Leave(s, how) ==
    Finally([SessIdle EXCEPT !.pc = how, !.ins_code = s.ins_code,
                             !.registered = s.registered, !.open = s.open,
                             !.absent = s.absent,
                             !.cacheFailed = s.cacheFailed,
                             !.fellBack = s.fellBack])

\* an exception other than WebSocketDisconnect leaves the handler
Raise(s) == Leave(s, "error")

\* lines 322-324: manager.connect, then int(ins_code)
S_Connect ==
    /\ sess.pc \in {"idle", "closed", "error", "cancelled"}
    /\ \E code \in StreamCodes :
         LET s == [SessIdle EXCEPT !.ins_code = code, !.registered = TRUE,
                                   !.absent = AbsentFromBoth(code)]
         IN sess' = IF IsInt(code) THEN [s EXCEPT !.pc = "tick"] ELSE Raise(s)
    /\ UNCHANGED <<db, txn, rd, now, cache, redis_available, watcher, pass,
                   rs, bf, hist, up, probe, life>>

HotKey_Pdv(open) == "pdv"
\* lines 334 and 356: mw:inst:{ins_code}:price in the open branch,
\* mw:inst:{ins_code}:pdv in the closed one
HotKey(open) == IF open THEN "price" ELSE "pdv"

\* lines 326-338 and 352-364: the branch is chosen by the market state and
\* the hot key of that branch is asked
S_CacheGet ==
    /\ sess.pc = "tick"
    /\ \E connectOk \in BOOLEAN, opOk \in BOOLEAN :
         LET g == get_redis(redis_available, connectOk)
             open == is_market_open(now)
             entry == cache[HotKey(open)][sess.ins_code]
             try == TryRead(entry, g.client, opOk)
             v == Caught(try).val
             s == [sess EXCEPT !.open = open, !.sent = None,
                               !.absent = AbsentFromBoth(sess.ins_code),
                               !.rdStart = PassPhase, !.rdEnd = PassPhase,
                               !.cacheFailed = ~g.client \/ try.raised,
                               !.fellBack = FALSE]
         IN /\ redis_available' = g.avail
            /\ sess' = IF Caught(try).raised
                       THEN Raise([s EXCEPT !.value = None])
                       ELSE IF ~IsNone(v)
                       THEN [s EXCEPT !.pc = "send", !.value = py_float(v)]
                       ELSE [s EXCEPT !.pc = IF open THEN "get_price"
                                             ELSE "db_lookup",
                                      !.value = None]
    /\ UNCHANGED <<db, txn, rd, now, cache, watcher, pass, rs, bf, hist, up,
                   probe, life>>

\* line 341: value = await get_price(ins_code_int)
S_PriceReturns ==
    /\ sess.pc = "get_price"
    /\ \E out \in get_price(sess.ins_code) :
         LET s == [sess EXCEPT !.absent = @ /\ AbsentFromBoth(sess.ins_code),
                               !.rdEnd = PassPhase, !.fellBack = TRUE]
         IN sess' = IF out.ok
                    THEN [s EXCEPT !.pc = "set_price", !.value = out.value]
                    ELSE Raise(s)
    /\ UNCHANGED <<db, txn, rd, now, cache, redis_available, watcher, pass,
                   rs, bf, hist, up, probe, life>>

\* lines 343-350: the live-price key is backfilled, errors are swallowed
S_SetPrice ==
    /\ sess.pc = "set_price"
    /\ \E connectOk \in BOOLEAN, opOk \in BOOLEAN :
         LET g == get_redis(redis_available, connectOk)
             try == TryWrite(g.client, opOk)
         IN /\ redis_available' = g.avail
            /\ cache' = IF g.client /\ opOk
                        THEN [cache EXCEPT ![
                                 "price"][sess.ins_code] =
                                 CacheEntry(py_str(sess.value),
                                            REDIS_TTL_SECONDS)]
                        ELSE cache
            /\ sess' = IF Caught(try).raised THEN Raise(sess)
                       ELSE [sess EXCEPT !.pc = "send",
                                         !.cacheFailed = @ \/ try.raised]
    /\ UNCHANGED <<db, txn, rd, now, watcher, pass, rs, bf, hist, up, probe,
                   life>>

LookupRaises_Sentinel(s) == [s EXCEPT !.pc = "send", !.value = Num(0)]
\* line 366: an exception of db.get_pdv_by_ins_code is caught by no clause
\* of the handler but "except WebSocketDisconnect", which it is not
LookupRaises(s) == Raise(s)

LookedUp_SentinelCached(s, v) ==
    [s EXCEPT !.pc = "set_pdv", !.value = Sentinel(v)]
\* lines 368-378: "if value is not None" guards the backfill; the sentinel
\* is assigned after it
LookedUp(s, v) ==
    IF ~IsNone(v)
    THEN [s EXCEPT !.pc = "set_pdv", !.value = v]
    ELSE [s EXCEPT !.pc = "send", !.value = Sentinel(v)]

\* lines 366-370, 377-378: the durable store is asked; with no record the
\* value is the sentinel and nothing is backfilled; an error of the store
\* leaves the handler
S_DbLookup ==
    /\ sess.pc = "db_lookup"
    /\ \E ok \in BOOLEAN :
       LET v == get_pdv_by_ins_code(db, sess.ins_code)
           s == [sess EXCEPT !.absent = @ /\ AbsentFromBoth(sess.ins_code),
                             !.rdEnd = PassPhase, !.fellBack = TRUE]
       IN sess' = IF ~ok THEN LookupRaises(s) ELSE LookedUp(s, v)
    /\ UNCHANGED <<db, txn, rd, now, cache, redis_available, watcher, pass,
                   rs, bf, hist, up, probe, life>>

\* lines 370-378: the last-close key is backfilled, errors are swallowed
S_SetPdv ==
    /\ sess.pc = "set_pdv"
    /\ \E connectOk \in BOOLEAN, opOk \in BOOLEAN :
         LET g == get_redis(redis_available, connectOk)
             try == TryWrite(g.client, opOk)
         IN /\ redis_available' = g.avail
            /\ cache' = IF g.client /\ opOk
                        THEN [cache EXCEPT !["pdv"][sess.ins_code] =
                                 CacheEntry(py_str(sess.value),
                                            REDIS_TTL_SECONDS)]
                        ELSE cache
            /\ sess' = IF Caught(try).raised THEN Raise(sess)
                       ELSE [sess EXCEPT !.pc = "send",
                                         !.value = Sentinel(sess.value),
                                         !.cacheFailed = @ \/ try.raised]
    /\ UNCHANGED <<db, txn, rd, now, watcher, pass, rs, bf, hist, up, probe,
                   life>>

Sent_NoSleep(s) == [s EXCEPT !.pc = "tick", !.sent = py_str(s.value)]
\* lines 380-381: the text of the value has gone out and the handler waits
\* in asyncio.sleep(WEBSOCKET_UPDATE_INTERVAL)
Sent(s) == [s EXCEPT !.pc = "sleeping", !.sent = py_str(s.value)]

\* line 380: await websocket.send_text(str(value)); a client that has gone
\* ends the session (WebSocketDisconnect, finally)
S_Send ==
    /\ sess.pc = "send"
    /\ \/ sess' = Sent(sess)
       \/ sess' = Leave(sess, "closed")
       \/ sess' = Raise(sess)
    /\ UNCHANGED <<db, txn, rd, now, cache, redis_available, watcher, pass,
                   rs, bf, hist, up, probe, life>>

\* the handler's task is cancelled while it waits at one of its awaits:
\* CancelledError is not caught at lines 382-383 and runs the finally
Awaiting == {"tick", "get_price", "set_price", "db_lookup", "set_pdv",
             "send", "sleeping"}

S_Cancel ==
    /\ sess.pc \in Awaiting
    /\ sess' = Leave(sess, "cancelled")
    /\ UNCHANGED <<db, txn, rd, now, cache, redis_available, watcher, pass,
                   rs, bf, hist, up, probe, life>>

\* line 381: await asyncio.sleep(WEBSOCKET_UPDATE_INTERVAL) returns; the
\* locals of the tick are set anew at the top of the loop
S_SleepReturns ==
    /\ sess.pc = "sleeping"
    /\ sess' = [SessIdle EXCEPT !.pc = "tick", !.ins_code = sess.ins_code,
                                !.registered = sess.registered]
    /\ UNCHANGED <<db, txn, rd, now, cache, redis_available, watcher, pass,
                   rs, bf, hist, up, probe, life>>

----------------------------------------------------------------------------
(* main.py: get_market_watch_with_additional_data (GET                      *)
(* /marketwatch-with-additional-data) and its two backfill tasks            *)


\* line 161: asyncio.create_task(_backfill_market_watch_async(mw_resp))
create_market_watch_task(mw_resp) ==
    [BFIdle EXCEPT !.pc = "set_snapshot_only", !.mw_resp = mw_resp]

\* where the handler goes once it has its snapshot: to the additional data
\* when the cache did not give them, to the merge otherwise
AfterSnapshot(addHit) == IF addHit THEN "done" ELSE "add_stage"

\* line 178: {item["insCode"]: item for item in ...}; a later record of a
\* code takes the place of an earlier one
RECURSIVE additional_map(_)
additional_map(list) ==
    IF list = <<>> THEN [c \in {} |-> None]
    ELSE LET item == list[Len(list)]
             m == additional_map(SubSeq(list, 1, Len(list) - 1))
         IN [c \in DOMAIN m \cup {item.insCode} |->
                IF c = item.insCode THEN item ELSE m[c]]

\* dict.get(key): the value, or None
map_get(m, key) == IF key \in DOMAIN m THEN <<"dict", m[key]>> ELSE None

\* lines 182-183: the dump of the item with one more key
item_dict(market_item, m) ==
    [k \in DOMAIN market_item \cup {"additional_data"} |->
        IF k = "additional_data" THEN map_get(m, market_item.insCode)
        ELSE market_item[k]]

merged_items_Joined(mw_resp, additional_data) ==
    LET m == additional_map(additional_data.additional_data)
    IN SelectSeq([i \in 1..Len(mw_resp.marketwatch) |->
                     item_dict(mw_resp.marketwatch[i], m)],
                 LAMBDA d : ~IsNone(d.additional_data))
\* lines 177-184: one item_dict for each item of mw_resp.marketwatch
merged_items(mw_resp, additional_data) ==
    LET m == additional_map(additional_data.additional_data)
    IN [i \in 1..Len(mw_resp.marketwatch) |->
           item_dict(mw_resp.marketwatch[i], m)]

\* lines 177-186, reached with both parts in hand: the merge and the answer
Merge(st, mw_resp, additional_data) ==
    [st EXCEPT !.pc = "done", !.status = "ok", !.result = mw_resp,
               !.additional_data = <<"dict", additional_data>>,
               !.merged = merged_items(mw_resp, additional_data)]

\* lines 127-145: both keys are asked in one try block; mw_resp is assigned
\* after both gets, the additional data after mw_resp
RA_CacheGet(r) ==
    /\ rs[r].pc \in {"idle", "done"}
    /\ bf[r].pc \in {"idle", "done", "failed"}
    /\ bf[r].add \in {"idle", "done"}
    /\ \E connectOk \in BOOLEAN, opOk \in BOOLEAN, addOk \in BOOLEAN :
         LET g == get_redis(redis_available, connectOk)
             \* the second get raises before mw_resp is assigned
             try == TryRead(cache.snapshot, g.client, opOk /\ addOk)
             mw_blob == Caught(try).val
             tryAdd == IF try.raised THEN try
                       ELSE TryRead(cache.additional, g.client, TRUE)
             additional_blob == Caught(tryAdd).val
             addHit == Truthy(additional_blob)
             start == [RSIdle EXCEPT !.addHit = addHit,
                                     !.additional_data =
                                         IF addHit
                                         THEN <<"dict", json_loads(additional_blob)>>
                                         ELSE None,
                                     !.open = is_market_open(now),
                                     !.cacheFailed = ~g.client \/ try.raised]
             found == [start EXCEPT !.result = Validate(json_loads(mw_blob)),
                                    !.hit = TRUE]
         IN /\ redis_available' = g.avail
            /\ rs' = [rs EXCEPT ![r] =
                 IF Truthy(mw_blob)
                 THEN IF addHit
                      THEN Merge(found, found.result,
                                 json_loads(additional_blob))
                      ELSE [found EXCEPT !.pc = AfterSnapshot(addHit)]
                 ELSE [start EXCEPT
                         !.pc = FallbackSource(is_market_open(now))]]
    /\ bf' = [bf EXCEPT ![r] = BFIdle]
    /\ UNCHANGED <<db, txn, rd, now, cache, watcher, pass, sess, hist, up,
                   probe, life>>

\* lines 150-152 and 161: the live snapshot, then the backfill task
RA_FetchReturns(r) ==
    /\ rs[r].pc = "fetching"
    /\ \E out \in UpstreamOutcomes :
         IF out.ok
         THEN /\ LET got == [rs[r] EXCEPT !.result = Validate(out.data),
                                           !.upstream_calls = @ + 1]
                 IN rs' = [rs EXCEPT ![r] =
                      IF rs[r].addHit
                      THEN Merge(got, got.result, rs[r].additional_data[2])
                      ELSE [got EXCEPT !.pc = AfterSnapshot(rs[r].addHit)]]
              /\ bf' = [bf EXCEPT ![r] =
                            create_market_watch_task(Validate(out.data))]
         ELSE /\ rs' = [rs EXCEPT ![r].pc = "done",
                                  ![r].status = LiveFetchRaises(db).status,
                                  ![r].upstream_calls = @ + 1,
                                  ![r].upRaised = TRUE]
              /\ bf' = bf
    /\ UNCHANGED <<db, txn, rd, now, cache, redis_available, watcher, pass,
                   sess, hist, up, probe, life>>

\* lines 155-157 and 161: the stored snapshot, then the backfill task
RA_DbRead(r) ==
    /\ rs[r].pc = "db_read"
    /\ \E ok \in BOOLEAN :
         IF ok
         THEN /\ LET got == [rs[r] EXCEPT !.result = ClosedMarketSnapshot(db),
                                           !.db_reads = @ + 1,
                                           !.storeSeen = db]
                 IN rs' = [rs EXCEPT ![r] =
                      IF rs[r].addHit
                      THEN Merge(got, got.result, rs[r].additional_data[2])
                      ELSE [got EXCEPT !.pc = AfterSnapshot(rs[r].addHit)]]
              /\ bf' = [bf EXCEPT ![r] =
                            create_market_watch_task(ClosedMarketSnapshot(db))]
         ELSE /\ rs' = [rs EXCEPT ![r].pc = "done", ![r].status = "error",
                                  ![r].db_reads = @ + 1,
                                  ![r].storeSeen = db,
                                  ![r].dbRaised = TRUE]
              /\ bf' = bf
    /\ UNCHANGED <<db, txn, rd, now, cache, redis_available, watcher, pass,
                   sess, hist, up, probe, life>>

\* what the additional data can be: any answer of the feed when the market
\* is open, the rows of the additional_data table, whose key is insCode,
\* when it is closed
AdditionalSource(open) ==
    IF open THEN AdditionalLists
    ELSE {l \in AdditionalLists :
            \A i, j \in 1..Len(l) : l[i].insCode = l[j].insCode => i = j}

\* lines 163-186: the additional data are fetched (open) or read from the
\* store (closed), their backfill task is created and the two are merged;
\* an exception ends the request in HTTPException(500)
RA_Additional(r) ==
    /\ rs[r].pc = "add_stage"
    /\ \E ok \in BOOLEAN, list \in AdditionalSource(is_market_open(now)) :
         IF ok
         THEN /\ rs' = [rs EXCEPT ![r] =
                          Merge(rs[r], rs[r].result, AdditionalData(list))]
              /\ bf' = [bf EXCEPT ![r].add = "pending",
                                  ![r].additional_data =
                                      <<"dict", AdditionalData(list)>>]
         ELSE /\ rs' = [rs EXCEPT ![r].pc = "done", ![r].status = "error"]
              /\ bf' = bf
    /\ UNCHANGED <<db, txn, rd, now, cache, redis_available, watcher, pass,
                   sess, hist, up, probe, life>>

\* _backfill_market_watch_async, lines 407-416: the snapshot blob and
\* nothing else; without a client r.set raises and the error is swallowed
BM_SetSnapshot(r) ==
    /\ bf[r].pc = "set_snapshot_only"
    /\ \E connectOk \in BOOLEAN, opOk \in BOOLEAN :
         LET g == get_redis(redis_available, connectOk)
         IN /\ redis_available' = g.avail
            /\ IF g.client /\ opOk
               THEN /\ cache' = SetSnapshot(cache,
                                   orjson_dumps(model_dump(bf[r].mw_resp)),
                                   REDIS_TTL_SECONDS)
                    /\ bf' = [bf EXCEPT ![r].pc = "done"]
                    /\ hist' = [hist EXCEPT !.cached = bf[r].mw_resp]
               ELSE /\ bf' = [bf EXCEPT ![r].pc = "failed"]
                    /\ UNCHANGED <<cache, hist>>
    /\ UNCHANGED <<db, txn, rd, now, watcher, pass, rs, sess, up, probe,
                   life>>

\* _backfill_additional_data_async, lines 419-428
BA_SetAdditional(r) ==
    /\ bf[r].add = "pending"
    /\ \E connectOk \in BOOLEAN, opOk \in BOOLEAN :
         LET g == get_redis(redis_available, connectOk)
         IN /\ redis_available' = g.avail
            /\ cache' = IF g.client /\ opOk
                        THEN [cache EXCEPT !.additional =
                                 CacheEntry(AdditionalBlob(bf[r].additional_data[2]),
                                            REDIS_TTL_SECONDS)]
                        ELSE cache
    /\ bf' = [bf EXCEPT ![r].add = "done",
                        ![r].additional_data = BFIdle.additional_data]
    /\ UNCHANGED <<db, txn, rd, now, watcher, pass, rs, sess, hist, up,
                   probe, life>>

----------------------------------------------------------------------------
(* get_market_watch_data.py: fetch_merged_data, request by request *)

\* the keys of MARKETWATCH_URLS, in their order
MarketTypes == <<"stock_market", "base_market">>

\* what the request of a segment can give
Segments == {SegmentError} \cup {SegmentOk(s) : s \in SeqsUpTo(Items, MaxRecs)}

UpIdle ==
    [pc |-> "idle",
     got |-> [m \in Range(MarketTypes) |-> FALSE],
     seg |-> [m \in Range(MarketTypes) |-> SegmentOk(<<>>)],
     result |-> [ok |-> FALSE, data |-> [marketwatch |-> <<>>]]]

\* lines 43-51: the session is opened and the requests are gathered
FM_Start ==
    /\ up.pc \in {"idle", "done"}
    /\ up' = [UpIdle EXCEPT !.pc = "gathering"]
    /\ UNCHANGED <<db, txn, rd, now, cache, redis_available, watcher, pass, rs,
                   bf, sess, probe, life, hist>>

\* lines 18-26 and 51-60: one request ends.  gather raises as soon as a
\* request raises and returns, in the order of the tasks, once all have
\* returned
FM_SegmentReturns(m) ==
    /\ up.pc = "gathering"
    /\ ~up.got[m]
    /\ \E resp \in Segments :
         LET u == [up EXCEPT !.got[m] = TRUE, !.seg[m] = resp]
         IN up' = IF ~resp.ok \/ \A k \in Range(MarketTypes) : u.got[k]
                  THEN [u EXCEPT !.pc = "done",
                                 !.result = fetch_merged_data(
                                                u.seg["stock_market"],
                                                u.seg["base_market"])]
                  ELSE u
    /\ UNCHANGED <<db, txn, rd, now, cache, redis_available, watcher, pass, rs,
                   bf, sess, probe, life, hist>>

----------------------------------------------------------------------------
(* utils.py: is_market_open called with a time of the caller's *)

NoProbe == [asked |-> FALSE]

\* the wall clock that shows the Tehran instant t in a zone
WallClock(t, tz) ==
    IF tz = "utc"
    THEN IF t.tod - UtcOffsetTicks < 0
         THEN ZonedTime(t.day - 1, t.tod - UtcOffsetTicks + LastTick + 1, tz)
         ELSE ZonedTime(t.day, t.tod - UtcOffsetTicks, tz)
    ELSE ZonedTime(t.day, t.tod, tz)

\* is_market_open(check_time) for the current instant, given in some zone
ClockProbe ==
    /\ \E tz \in Zones :
         probe' = [asked |-> TRUE, instant |-> now,
                   check_time |-> WallClock(now, tz),
                   answer |-> is_market_open(WallClock(now, tz))]
    /\ UNCHANGED <<db, txn, rd, now, cache, redis_available, watcher, pass, rs,
                   bf, sess, up, life, hist>>

----------------------------------------------------------------------------
(* SpecSched: the scheduler, its passes and the clock.  The clock is free:  *)
(* a sleep may return any time after its target.                            *)

SchedInit ==
    /\ db = <<>>
    /\ txn = Idle
    /\ rd = NoRead
    /\ now \in {Time(0, t) : t \in Ticks}
    /\ cache = EmptyCache
    /\ redis_available = "None"
    /\ watcher = WatcherInit
    /\ pass = [p \in Runs |-> PassIdle]
    /\ rs = [r \in Readers |-> RSIdle]
    /\ bf = [r \in Readers |-> BFIdle]
    /\ sess = SessIdle
    /\ up = UpIdle
    /\ probe = NoProbe
    /\ life = "running"
    /\ hist = HistInit

ClockTick ==
    /\ Tick
    /\ UNCHANGED <<db, txn, rd, cache, redis_available, watcher, pass, hist,
                   rs, bf, sess, up, probe, life>>

SchedNext ==
    \/ ClockTick
    \/ WatcherStartup
    \/ WatcherWake
    \/ WatcherSaveAdditional
    \/ WatcherSetDate
    \/ \E p \in Runs : PassFetchReturns(p, SchedOutcomes)
    \/ \E p \in Runs : PassMirrorSnapshot(p)
    \/ \E p \in Runs : PassMirrorPdv(p)

SpecSched == SchedInit /\ [][SchedNext]_vars

\* SpecTimely: the same, with the timing the event loop gives in normal
\* operation: a sleep returns on the tick of its target and a pass (bounded
\* by the 30 s timeouts of its requests) ends within that tick.  The clock
\* advances only while the watcher sleeps and its target is not reached.
TimelyTick ==
    /\ watcher.pc = "sleeping"
    /\ pass["startup"].pc \in {"idle", "done"}
    /\ TimeLT(now, watcher.target)
    /\ Tick
    /\ UNCHANGED <<db, txn, rd, cache, redis_available, watcher, pass, hist,
                   rs, bf, sess, up, probe, life>>

TimelyNext ==
    \/ TimelyTick
    \/ WatcherStartup
    \/ WatcherWake
    \/ WatcherSaveAdditional
    \/ WatcherSetDate
    \/ \E p \in Runs : PassFetchReturns(p, SchedOutcomes)
    \/ \E p \in Runs : PassMirrorSnapshot(p)
    \/ \E p \in Runs : PassMirrorPdv(p)

SpecTimely == SchedInit /\ [][TimelyNext]_vars

----------------------------------------------------------------------------
(* main.py: lifespan.  SpecLife: the timely scheduler until the application *)
(* is shut down and the event loop is torn down.                            *)

PassInFlight(p) == pass[p].pc \in {"fetching", "mirror_snapshot", "mirror_pdv"}

\* CancelledError is raised at the await a coroutine waits at; it is not an
\* Exception, so no except clause of the pass or of the loop catches it
Cancelled(run) == IF run.pc \in {"idle", "done"} THEN run
                  ELSE [run EXCEPT !.pc = "cancelled"]

\* lines 52-55: app.state._watcher_task.cancel(); await it.  The daily pass
\* is awaited by the watcher and is part of its task; the startup pass is a
\* task of its own (line 516) that nothing refers to.
Shutdown ==
    /\ life = "running"
    /\ life' = "stopped"
    /\ watcher' = [watcher EXCEPT !.pc = "cancelled"]
    /\ pass' = [pass EXCEPT !["daily"] = Cancelled(pass["daily"])]
    /\ UNCHANGED <<db, txn, rd, now, cache, redis_available, rs, bf, sess,
                   up, probe, hist>>

\* the runner closes the event loop: the tasks that are left are cancelled
Teardown ==
    /\ life = "stopped"
    /\ life' = "exited"
    /\ pass' = [p \in Runs |-> Cancelled(pass[p])]
    /\ UNCHANGED <<db, txn, rd, now, cache, redis_available, watcher, rs, bf,
                   sess, up, probe, hist>>

LifeNext ==
    \/ TimelyTick
    \/ WatcherStartup
    \/ WatcherWake
    \/ WatcherSaveAdditional
    \/ WatcherSetDate
    \/ \E p \in Runs : PassFetchReturns(p, SchedOutcomes)
    \/ \E p \in Runs : PassMirrorSnapshot(p)
    \/ \E p \in Runs : PassMirrorPdv(p)
    \/ Shutdown
    \/ Teardown

SpecLife == SchedInit /\ [][LifeNext]_vars

----------------------------------------------------------------------------
(* SpecRestart: SpecLife with a process that is started again after it has  *)
(* exited; the store and the cache outlive the process, its memory does not *)

StartState_Kept(old) ==
    [WatcherInit EXCEPT !.last_snapshot_date = old.last_snapshot_date]
\* lines 47-48: app.state._last_market_open = None and
\* app.state._last_snapshot_date = None, whatever the last process held
StartState(old) == WatcherInit

\* time goes on while no process runs
DownTick ==
    /\ life = "exited"
    /\ Tick
    /\ UNCHANGED <<db, txn, rd, cache, redis_available, watcher, pass, hist,
                   rs, bf, sess, up, probe, life>>

\* lifespan, lines 47-49, and the first run of the watcher task up to its
\* sleep, lines 508-535, which has no await before it
Restart ==
    /\ life = "exited"
    /\ life' = "running"
    /\ redis_available' = "None"
    /\ watcher' = AtStartup(StartState(watcher), now)
    /\ pass' = [p \in Runs |->
                  IF p = "startup" /\ StartsPass(is_market_open(now))
                  THEN [PassIdle EXCEPT !.pc = "fetching"]
                  ELSE PassIdle]
    /\ UNCHANGED <<db, txn, rd, now, cache, rs, bf, sess, up, probe, hist>>

RestartNext ==
    \/ LifeNext
    \/ DownTick
    \/ Restart

SpecRestart == SchedInit /\ [][RestartNext]_vars

----------------------------------------------------------------------------
(* SpecDaily: SpecTimely with the additional-data step of the daily turn    *)
(* taken as a step of its own, with its outcomes                            *)

DailyNext ==
    \/ TimelyTick
    \/ WatcherStartup
    \/ WatcherWake
    \/ WatcherSaveAdditional
    \/ WatcherAdditionalReturns
    \/ watcher.add # "none" /\ WatcherSetDate
    \/ \E p \in Runs : PassFetchReturns(p, SchedOutcomes)
    \/ \E p \in Runs : PassMirrorSnapshot(p)
    \/ \E p \in Runs : PassMirrorPdv(p)

SpecDaily == SchedInit /\ [][DailyNext]_vars

----------------------------------------------------------------------------
(* SpecStart: the scheduler of a process started on any day at any time.    *)
(* A tick stands for every instant of its stretch of the day, its last      *)
(* seconds included, so a pass can reach into the next tick; bounded by the *)
(* timeouts of its requests, it ends before the tick after that.            *)

StartInit ==
    /\ db = <<>>
    /\ txn = Idle
    /\ rd = NoRead
    /\ now \in {Time(d, t) : d \in Days, t \in Ticks}
    /\ cache = EmptyCache
    /\ redis_available = "None"
    /\ watcher = WatcherInit
    /\ pass = [p \in Runs |-> PassIdle]
    /\ rs = [r \in Readers |-> RSIdle]
    /\ bf = [r \in Readers |-> BFIdle]
    /\ sess = SessIdle
    /\ up = UpIdle
    /\ probe = NoProbe
    /\ life = "running"
    /\ hist = HistInit

StartTick ==
    /\ watcher.pc = "sleeping"
    /\ TimeLT(now, watcher.target)
    /\ PassInFlight("startup") => now = hist.start
    /\ Tick
    /\ UNCHANGED <<db, txn, rd, cache, redis_available, watcher, pass, hist,
                   rs, bf, sess, up, probe, life>>

StartNext ==
    \/ StartTick
    \/ WatcherStartup
    \/ WatcherWake
    \/ WatcherSaveAdditional
    \/ WatcherSetDate
    \/ \E p \in Runs : PassFetchReturns(p, SchedOutcomes)
    \/ \E p \in Runs : PassMirrorSnapshot(p)
    \/ \E p \in Runs : PassMirrorPdv(p)

SpecStart == StartInit /\ [][StartNext]_vars

----------------------------------------------------------------------------
(* SpecBoot: the same start on any day at any time, on an empty store, with *)
(* an upstream that can answer the startup pass with up to two records     *)

BootNext ==
    \/ StartTick
    \/ WatcherStartup
    \/ WatcherWake
    \/ WatcherSaveAdditional
    \/ WatcherSetDate
    \/ PassFetchReturns("startup", UpstreamOutcomes)
    \/ PassFetchReturns("daily", SchedOutcomes)
    \/ \E p \in Runs : PassMirrorSnapshot(p)
    \/ \E p \in Runs : PassMirrorPdv(p)

SpecBoot == StartInit /\ [][BootNext]_vars

----------------------------------------------------------------------------
(* SpecStore: one writer inside save_market_watch_data, statement by       *)
(* statement, and readers on connections of their own                      *)

InFlight == txn.pc \in {"begun", "deleted"}

StoreInit ==
    /\ db \in Tables
    /\ txn = Idle
    /\ rd = NoRead
    /\ now = Time(0, 0)
    /\ cache = EmptyCache
    /\ redis_available = "None"
    /\ watcher = WatcherInit
    /\ pass = [p \in Runs |-> PassIdle]
    /\ rs = [r \in Readers |-> RSIdle]
    /\ bf = [r \in Readers |-> BFIdle]
    /\ sess = SessIdle
    /\ up = UpIdle
    /\ probe = NoProbe
    /\ life = "running"
    /\ hist = HistInit

otherThanStore ==
    <<now, cache, redis_available, watcher, pass, rs, bf, sess, up, probe, life,
      hist>>

\* save_market_watch_data is entered: count, reject, or BEGIN
StoreCall(data) ==
    /\ txn.pc \in {"idle", "done"}
    /\ rd' = NoRead
    /\ db' = db
    /\ IF RejectEmpty(data)
       THEN txn' = [Idle EXCEPT !.pc = "done", !.data = data, !.before = db,
                                !.ret = 0]
       ELSE txn' = [Idle EXCEPT !.pc = "begun", !.data = data, !.before = db,
                                !.began = TRUE,
                                !.work = OpBegin([committed |-> db,
                                                  work |-> NoTxn]).work]

StoreDelete ==
    /\ txn.pc = "begun"
    /\ LET st == OpDelete([committed |-> db, work |-> txn.work])
       IN /\ db' = st.committed
          /\ txn' = [txn EXCEPT !.pc = "deleted", !.work = st.work]
    /\ rd' = rd

StoreInsert ==
    /\ txn.pc = "deleted"
    /\ txn.k < Len(txn.data.marketwatch)
    /\ LET st == OpInsert([committed |-> db, work |-> txn.work],
                          txn.data.marketwatch[txn.k + 1])
       IN /\ db' = st.committed
          /\ txn' = [txn EXCEPT !.k = txn.k + 1, !.work = st.work]
    /\ rd' = rd

StoreCommit ==
    /\ txn.pc = "deleted"
    /\ txn.k = Len(txn.data.marketwatch)
    /\ LET st == OpCommit([committed |-> db, work |-> txn.work])
       IN /\ db' = st.committed
          /\ txn' = [txn EXCEPT !.pc = "done", !.work = st.work,
                                !.ret = Len(txn.data.marketwatch)]
    /\ rd' = rd

\* any statement raises: except Exception -> conn.rollback(); return 0
StoreFail ==
    /\ InFlight
    /\ LET st == OpRollback([committed |-> db, work |-> txn.work])
       IN /\ db' = st.committed
          /\ txn' = [txn EXCEPT !.pc = "done", !.work = st.work, !.ret = 0,
                                !.failed = TRUE]
    /\ rd' = rd

\* a reader on its own connection sees the committed rows
StoreRead ==
    /\ rd' = [valid |-> TRUE, snap |-> get_market_watch_from_db(db),
              afterWrite |-> txn.pc = "done" /\ txn.ret > 0]
    /\ UNCHANGED <<db, txn>>

StoreNext ==
    \/ \E data \in Snapshots : StoreCall(data) /\ UNCHANGED otherThanStore
    \/ StoreDelete /\ UNCHANGED otherThanStore
    \/ StoreInsert /\ UNCHANGED otherThanStore
    \/ StoreCommit /\ UNCHANGED otherThanStore
    \/ StoreFail /\ UNCHANGED otherThanStore
    \/ StoreRead /\ UNCHANGED otherThanStore

SpecStore == StoreInit /\ [][StoreNext]_vars

----------------------------------------------------------------------------
(* SpecRead: a reader of GET /marketwatch and its backfill task, next to    *)
(* the startup pass, the expiry of cache entries and the clock of one day.  *)

\* the stores a process can start on
ReadTables ==
    {<<>>,
     save_market_watch_data(<<>>,
         MarketWatchResponse(<<MarketWatchItem("101", 7, Num(5), 20, <<BestLimit>>),
                               MarketWatchItem("102", 0, <<"str", 5>>, 10, <<BestLimit>>)>>),
         FALSE).table}

ReadInit ==
    /\ db \in ReadTables
    /\ txn = Idle
    /\ rd = NoRead
    /\ now \in {Time(0, t) : t \in Ticks}
    /\ cache = EmptyCache
    /\ redis_available = "None"
    /\ watcher = WatcherInit
    /\ pass = [p \in Runs |-> PassIdle]
    /\ rs = [r \in Readers |-> RSIdle]
    /\ bf = [r \in Readers |-> BFIdle]
    /\ sess = SessIdle
    /\ up = UpIdle
    /\ probe = NoProbe
    /\ life = "running"
    /\ hist = HistInit

\* the clock of one day, up to the first tick after the close
DayTick ==
    /\ now.day = 0
    /\ now.tod <= CloseTick
    /\ Tick
    /\ UNCHANGED <<db, txn, rd, cache, redis_available, watcher, pass, rs,
                   bf, sess, hist, up, probe, life>>

ReadNext ==
    \/ DayTick
    \/ CacheExpire
    \/ WatcherStartup
    \/ PassFetchReturns("startup", SchedOutcomes)
    \/ PassMirrorSnapshot("startup")
    \/ PassMirrorPdv("startup")
    \/ \E r \in Readers : RS_CacheGet(r)
    \/ \E r \in Readers : RS_FetchReturns(r)
    \/ \E r \in Readers : RS_DbRead(r)
    \/ \E r \in Readers : BF_SetSnapshot(r)
    \/ \E r \in Readers : BF_Pipeline(r)

SpecRead == ReadInit /\ [][ReadNext]_vars

----------------------------------------------------------------------------
(* SpecStream: a price stream session next to the startup pass, the expiry  *)
(* of cache entries and the clock of one day; the store starts empty and    *)
(* the cache cold.                                                          *)

StreamInit ==
    /\ db = <<>>
    /\ txn = Idle
    /\ rd = NoRead
    /\ now \in {Time(0, t) : t \in Ticks}
    /\ cache = EmptyCache
    /\ redis_available = "None"
    /\ watcher = WatcherInit
    /\ pass = [p \in Runs |-> PassIdle]
    /\ rs = [r \in Readers |-> RSIdle]
    /\ bf = [r \in Readers |-> BFIdle]
    /\ sess = SessIdle
    /\ up = UpIdle
    /\ probe = NoProbe
    /\ life = "running"
    /\ hist = HistInit

StreamNext ==
    \/ DayTick
    \/ CacheExpire
    \/ WatcherStartup
    \/ PassFetchReturns("startup", UpstreamOutcomes)
    \/ PassMirrorSnapshot("startup")
    \/ PassMirrorPdv("startup")
    \/ S_Connect
    \/ S_CacheGet
    \/ S_PriceReturns
    \/ S_SetPrice
    \/ S_DbLookup
    \/ S_SetPdv
    \/ S_Send
    \/ S_Cancel
    \/ S_SleepReturns

SpecStream == StreamInit /\ [][StreamNext]_vars

----------------------------------------------------------------------------
(* SpecFault: a reader of GET /marketwatch, its backfill and a price stream *)
(* session over a cache whose client can be absent, whose operations can    *)
(* fail and whose entries can be corrupt                                    *)

\* an entry of the cache comes to hold a text no reader can decode
CacheCorrupt ==
    /\ \/ /\ ~IsNone(cache.snapshot.val)
          /\ cache' = [cache EXCEPT !.snapshot.val = Junk]
       \/ \E c \in Codes :
            /\ ~IsNone(cache.pdv[c].val)
            /\ cache' = [cache EXCEPT !.pdv[c].val = Junk]
       \/ \E c \in Codes :
            /\ ~IsNone(cache.price[c].val)
            /\ cache' = [cache EXCEPT !.price[c].val = Junk]
    /\ UNCHANGED <<db, txn, rd, now, redis_available, watcher, pass, rs, bf,
                   sess, hist, up, probe, life>>

\* no request and no backfill is under way
ReaderQuiet ==
    \A r \in Readers :
        /\ rs[r].pc \in {"idle", "done"}
        /\ bf[r].pc \in {"idle", "done", "failed"}

\* the process starts on a store that holds a snapshot, before the open or
\* within the trading window
FaultInit ==
    /\ ReadInit
    /\ Len(db) > 0
    /\ now.tod \in {OpenTick - 1, OpenTick}

\* The requests come first and the session after them: the two share only
\* the cache, whose state the faults below make arbitrary for either.
FaultNext ==
    \/ CacheCorrupt
    \/ \E r \in Readers : sess.pc = "idle" /\ RS_CacheGet(r)
    \/ \E r \in Readers : RS_FetchReturns(r)
    \/ \E r \in Readers : RS_DbRead(r)
    \/ \E r \in Readers : BF_SetSnapshot(r)
    \/ \E r \in Readers : BF_Pipeline(r)
    \/ ReaderQuiet /\ S_Connect
    \/ S_CacheGet
    \/ S_PriceReturns
    \/ S_SetPrice
    \/ S_DbLookup
    \/ S_SetPdv
    \/ S_Send
    \/ S_Cancel
    \/ S_SleepReturns

SpecFault == FaultInit /\ [][FaultNext]_vars

----------------------------------------------------------------------------
(* SpecServe: SpecFault without corrupt entries: the requests and the       *)
(* session over a store that can raise and a cache that can be away         *)

ServeNext ==
    \/ \E r \in Readers : sess.pc = "idle" /\ RS_CacheGet(r)
    \/ \E r \in Readers : RS_FetchReturns(r)
    \/ \E r \in Readers : RS_DbRead(r)
    \/ \E r \in Readers : BF_SetSnapshot(r)
    \/ \E r \in Readers : BF_Pipeline(r)
    \/ ReaderQuiet /\ S_Connect
    \/ S_CacheGet
    \/ S_PriceReturns
    \/ S_SetPrice
    \/ S_DbLookup
    \/ S_SetPdv
    \/ S_Send
    \/ S_Cancel
    \/ S_SleepReturns

SpecServe == FaultInit /\ [][ServeNext]_vars

----------------------------------------------------------------------------
(* SpecPair: two requests of GET /marketwatch at a time, each with its own  *)
(* coroutine and its own backfill task, over one cache and one store        *)

Pair == {"r1", "r2"}

PairInit ==
    /\ db \in ReadTables
    /\ Len(db) > 0
    /\ txn = Idle
    /\ rd = NoRead
    /\ now \in {Time(0, OpenTick - 1), Time(0, OpenTick)}
    /\ cache = EmptyCache
    /\ redis_available = "None"
    /\ watcher = WatcherInit
    /\ pass = [p \in Runs |-> PassIdle]
    /\ rs = [r \in Pair |-> RSIdle]
    /\ bf = [r \in Pair |-> BFIdle]
    /\ sess = SessIdle
    /\ up = UpIdle
    /\ probe = NoProbe
    /\ life = "running"
    /\ hist = HistInit

PairNext ==
    \/ \E r \in Pair : RS_CacheGet(r)
    \/ \E r \in Pair : RS_FetchReturns(r)
    \/ \E r \in Pair : RS_DbRead(r)
    \/ \E r \in Pair : BF_SetSnapshot(r)
    \/ \E r \in Pair : BF_Pipeline(r)

SpecPair == PairInit /\ [][PairNext]_vars

----------------------------------------------------------------------------
(* SpecReq: requests of GET /marketwatch and their backfills alone, on a    *)
(* store that holds a snapshot, before the open or within the trading       *)
(* window, with entries of the cache expiring                               *)

ReqNext ==
    \/ CacheExpire
    \/ \E r \in Readers : RS_CacheGet(r)
    \/ \E r \in Readers : RS_FetchReturns(r)
    \/ \E r \in Readers : RS_DbRead(r)
    \/ \E r \in Readers : BF_SetSnapshot(r)
    \/ \E r \in Readers : BF_Pipeline(r)

SpecReq == FaultInit /\ [][ReqNext]_vars

----------------------------------------------------------------------------
(* SpecExtra: requests of GET /marketwatch-with-additional-data and their   *)
(* backfills alone, on a store that holds a snapshot                        *)

ExtraNext ==
    \/ \E r \in Readers : RA_CacheGet(r)
    \/ \E r \in Readers : RA_FetchReturns(r)
    \/ \E r \in Readers : RA_DbRead(r)
    \/ \E r \in Readers : RA_Additional(r)
    \/ \E r \in Readers : BM_SetSnapshot(r)
    \/ \E r \in Readers : BA_SetAdditional(r)

SpecExtra == FaultInit /\ [][ExtraNext]_vars

----------------------------------------------------------------------------
(* SpecCache: every writer of the cache in one process: the startup pass,   *)
(* a reader of GET /marketwatch with its backfill and a price stream        *)
(* session, started before the open or within the trading window.           *)

CacheInit ==
    /\ ReadInit
    /\ Len(db) > 0
    /\ now.tod \in {OpenTick - 1, OpenTick}

CacheNext ==
    \/ WatcherStartup
    \/ PassFetchReturns("startup", SchedOutcomes)
    \/ PassMirrorSnapshot("startup")
    \/ PassMirrorPdv("startup")
    \/ \E r \in Readers : RS_CacheGet(r)
    \/ \E r \in Readers : RS_FetchReturns(r)
    \/ \E r \in Readers : RS_DbRead(r)
    \/ \E r \in Readers : BF_SetSnapshot(r)
    \/ \E r \in Readers : BF_Pipeline(r)
    \/ S_Connect
    \/ S_CacheGet
    \/ S_PriceReturns
    \/ S_SetPrice
    \/ S_DbLookup
    \/ S_SetPdv
    \/ S_Send
    \/ S_Cancel
    \/ S_SleepReturns

SpecCache == CacheInit /\ [][CacheNext]_vars

----------------------------------------------------------------------------
(* SpecFetch: merged fetches of the upstream, one after the other *)

FetchInit ==
    /\ db = <<>>
    /\ txn = Idle
    /\ rd = NoRead
    /\ now = Time(0, 0)
    /\ cache = EmptyCache
    /\ redis_available = "None"
    /\ watcher = WatcherInit
    /\ pass = [p \in Runs |-> PassIdle]
    /\ rs = [r \in Readers |-> RSIdle]
    /\ bf = [r \in Readers |-> BFIdle]
    /\ sess = SessIdle
    /\ up = UpIdle
    /\ probe = NoProbe
    /\ life = "running"
    /\ hist = HistInit

FetchNext ==
    \/ FM_Start
    \/ \E m \in Range(MarketTypes) : FM_SegmentReturns(m)

SpecFetch == FetchInit /\ [][FetchNext]_vars

----------------------------------------------------------------------------
(* SpecClock: the market clock asked at every instant of the run, in every  *)
(* zone                                                                     *)

ClockInit ==
    /\ db = <<>>
    /\ txn = Idle
    /\ rd = NoRead
    /\ now = Time(0, 0)
    /\ cache = EmptyCache
    /\ redis_available = "None"
    /\ watcher = WatcherInit
    /\ pass = [p \in Runs |-> PassIdle]
    /\ rs = [r \in Readers |-> RSIdle]
    /\ bf = [r \in Readers |-> BFIdle]
    /\ sess = SessIdle
    /\ up = UpIdle
    /\ probe = NoProbe
    /\ life = "running"
    /\ hist = HistInit

ClockNext ==
    \/ ClockTick
    \/ ClockProbe

SpecClock == ClockInit /\ [][ClockNext]_vars

----------------------------------------------------------------------------
(* The durable store's claims, under SpecStore *)

\* C6: a write of a snapshot of zero records returns 0, begins no
\* transaction and leaves every stored row as it was.
C6_EmptyWriteRejected ==
    (txn.pc = "done" /\ Len(txn.data.marketwatch) = 0)
        => (txn.ret = 0 /\ db = txn.before /\ ~txn.began)

C6_Witness ==
    txn.pc = "done" /\ Len(txn.data.marketwatch) = 0 /\ Len(db) > 0

\* C7 (as claimed): a committed write of a non-empty snapshot S followed at
\* once by a read gives back the identifiers of S and, for each of them, a
\* record equal in every field (id, pe, ladder included) to a record of S.
C7_RoundTripFidelity ==
    (rd.valid /\ rd.afterWrite)
        => /\ InsCodes(rd.snap) = InsCodes(txn.data)
           /\ \A i \in 1..Len(rd.snap.marketwatch) :
                 rd.snap.marketwatch[i] \in Range(txn.data.marketwatch)

\* C8: the write is all-or-nothing.  While the transaction is open, and
\* after it failed at any statement, the rows other connections see are the
\* rows held before the call, and so is every snapshot a reader has read
\* since the call began.
C8_AllOrNothing ==
    (InFlight \/ (txn.pc = "done" /\ txn.failed))
        => /\ db = txn.before
           /\ rd.valid => rd.snap = get_market_watch_from_db(txn.before)

C8_Witness ==
    /\ txn.pc = "done" /\ txn.failed /\ txn.k > 0
    /\ Len(db) > 0 /\ rd.valid

----------------------------------------------------------------------------
(* The scheduler's claims *)

\* C4 (SpecSched): on no date does the daily trigger start more than one
\* persistence pass; a further wake-up on a date that has its pass starts
\* none.
C4_AtMostOncePerDay ==
    \A d \in Days : hist.daily[d] <= 1

\* a date with its pass and a later wake-up on it that started none
C4_Witness ==
    \E d \in Days : hist.daily[d] = 1 /\ hist.skips[d] >= 1

\* C5 (SpecTimely): for every trading day whose close instant passed while
\* the scheduler was running, exactly one pass was started by the daily
\* trigger at or after the close on that date; never more than one.
C5_OncePerTradingDayAtClose ==
    \A d \in Days :
        /\ hist.atClose[d] <= 1
        /\ ( /\ hist.started
             /\ weekday(d) \in TRADING_DAYS
             /\ TimeLT(hist.start, Time(d, CloseTick))
             /\ TimeLT(Time(d, CloseTick), now) )
           => hist.atClose[d] = 1

\* two trading days in a row, each with its one pass at the close
C5_Witness ==
    /\ now.day = 2
    /\ hist.atClose[0] = 1 /\ hist.atClose[1] = 1
    /\ weekday(0) \in TRADING_DAYS /\ weekday(1) \in TRADING_DAYS
    /\ TimeLT(hist.start, Time(0, CloseTick))


\* C1 (SpecRead): a request that found a snapshot in the cache returns that
\* snapshot, the one its writer cached, and calls neither the upstream nor
\* the durable store.
C1_HitServesCache ==
    \A r \in Readers :
        rs[r].hit =>
            /\ rs[r].pc = "done"
            /\ rs[r].status = "ok"
            /\ rs[r].result = rs[r].cachedSeen
            /\ rs[r].upstream_calls = 0
            /\ rs[r].db_reads = 0

C1_Witness ==
    \E r \in Readers :
        /\ rs[r].pc = "done"
        /\ rs[r].hit
        /\ Len(rs[r].result.marketwatch) > 0
        /\ Len(db) = 0

\* C2 (SpecRead): a request that missed the cache (or found it unavailable)
\* while the market was closed returns exactly what get_market_watch_from_db
\* gives on the store as it was when the request read it; if that read
\* raises, the request fails.
C2_ClosedMissReadsStore ==
    \A r \in Readers :
        (rs[r].pc = "done" /\ ~rs[r].hit /\ ~rs[r].open) =>
            IF rs[r].dbRaised THEN rs[r].status = "error"
            ELSE /\ rs[r].status = "ok"
                 /\ rs[r].result = get_market_watch_from_db(rs[r].storeSeen)

C2_Witness ==
    \E r \in Readers :
        /\ rs[r].pc = "done"
        /\ ~rs[r].hit
        /\ ~rs[r].open
        /\ rs[r].status = "ok"
        /\ Len(rs[r].result.marketwatch) > 0
        /\ redis_available = "False"

\* C3 (SpecRead): a request that missed the cache consults exactly one
\* fallback source, once: the upstream when the market was open at the
\* miss, the durable store when it was closed; never both, never the other.
C3_OneFallbackByMarketState ==
    \A r \in Readers :
        /\ rs[r].upstream_calls + rs[r].db_reads <= 1
        /\ (rs[r].pc = "done" /\ ~rs[r].hit) =>
              /\ rs[r].upstream_calls = (IF rs[r].open THEN 1 ELSE 0)
              /\ rs[r].db_reads = (IF rs[r].open THEN 0 ELSE 1)

C3_Witness ==
    \E r \in Readers :
        /\ rs[r].pc = "done"
        /\ ~rs[r].hit
        /\ rs[r].open
        /\ rs[r].upstream_calls = 1
        /\ ~is_market_open(now)
\* C9 (as claimed, SpecStream): a session whose identifier (a numeric one)
\* is held by neither the hot cache nor the durable store never ends in an
\* error, has the zero sentinel as the value of its tick whatever the
\* market state, and sends that value.
C9_SentinelNeverError ==
    (sess.absent /\ IsInt(sess.ins_code)) =>
        /\ sess.pc # "error"
        /\ sess.pc \in {"send", "sleeping"} => sess.value = Num(0)
        /\ sess.pc = "sleeping" => sess.sent = py_str(Num(0))

\* C10 (SpecStream): the market was closed at startup, the store empty and
\* the cache cold.  A closed-market read of the session that did its last
\* step before the startup pass committed has the zero sentinel as its
\* value; one that did its first step after the pass completed with a
\* commit, for an instrument of the persisted snapshot, has the persisted
\* pdv of that instrument.
C10_ReadAroundStartupPass ==
    (/\ watcher.last_market_open = "False"
     /\ sess.pc \in {"send", "sleeping"}
     /\ ~sess.open) =>
        /\ sess.rdEnd = "before" => sess.value = Num(0)
        /\ (sess.rdStart = "after"
            /\ sess.ins_code \in InsCodes(hist.persisted)) =>
               sess.value = Num(LastPdv(hist.persisted, sess.ins_code))

C10_Witness ==
    /\ watcher.last_market_open = "False"
    /\ sess.pc = "sleeping"
    /\ ~sess.open
    /\ sess.rdStart = "after"
    /\ sess.ins_code \in InsCodes(hist.persisted)
    /\ sess.sent = py_str(Num(LastPdv(hist.persisted, sess.ins_code)))
    /\ IsNone(cache.pdv[sess.ins_code].val)
\* C11 (SpecFetch): a merged fetch in which a segment request failed ends
\* with an error and no records; a merged fetch that gives a snapshot has
\* had every segment answer, and the snapshot holds the records of all of
\* them, stock segment first.
C11_NoPartialMerge ==
    up.pc = "done" =>
        LET st == up.seg["stock_market"]
            ba == up.seg["base_market"]
            mw == up.result.data.marketwatch
        IN /\ (\E m \in Range(MarketTypes) : up.got[m] /\ ~up.seg[m].ok) =>
                  (~up.result.ok /\ Len(mw) = 0)
           /\ up.result.ok =>
                  /\ \A m \in Range(MarketTypes) : up.got[m] /\ up.seg[m].ok
                  /\ Len(mw) = Len(st.items) + Len(ba.items)
                  /\ \A i \in 1..Len(st.items) :
                        mw[i] = RawItem(st.items[i], "stock_market")
                  /\ \A j \in 1..Len(ba.items) :
                        mw[Len(st.items) + j] =
                            RawItem(ba.items[j], "base_market")

C11_Witness ==
    /\ up.pc = "done"
    /\ up.got["stock_market"]
    /\ up.seg["stock_market"].ok
    /\ Len(up.seg["stock_market"].items) > 0
    /\ up.got["base_market"]
    /\ ~up.seg["base_market"].ok
    /\ ~up.result.ok
\* C12 (SpecClock): at every instant whose weekday in Tehran is not a
\* trading day the market is closed, whatever the time of day and whatever
\* the zone the instant is given in.
C12_ClosedOffTradingDays ==
    /\ weekday(now.day) \notin TRADING_DAYS => ~is_market_open(now)
    /\ (probe.asked /\ weekday(probe.instant.day) \notin TRADING_DAYS) =>
           ~probe.answer

C12_Witness ==
    /\ probe.asked
    /\ weekday(probe.instant.day) \notin TRADING_DAYS
    /\ probe.instant.tod = OpenTick
    /\ probe.check_time.tz = "utc"
    /\ ~probe.answer

\* C13 (SpecClock): on a trading day the market is open exactly from the
\* open time to the close time, both included: open at the open tick and
\* at the close tick, closed one tick before the first and one tick after
\* the second.
C13_InclusiveWindow ==
    (probe.asked /\ weekday(probe.instant.day) \in TRADING_DAYS) =>
        /\ probe.answer <=> (/\ OpenTick <= probe.instant.tod
                             /\ probe.instant.tod <= CloseTick)
        /\ probe.instant.tod = OpenTick => probe.answer
        /\ probe.instant.tod = CloseTick => probe.answer
        /\ probe.instant.tod = OpenTick - 1 => ~probe.answer
        /\ probe.instant.tod = CloseTick + 1 => ~probe.answer

C13_Witness ==
    /\ probe.asked
    /\ weekday(probe.instant.day) \in TRADING_DAYS
    /\ probe.instant.tod = CloseTick
    /\ probe.check_time.tz = "utc"
    /\ probe.answer

\* C14 (SpecFault): a request or a session tick whose cache was unavailable,
\* failed or held a corrupt entry goes on as after a miss: the request ends
\* only after it consulted its one fallback source, and in an error only if
\* that source raised; the session ends in an error only after its fallback
\* was asked, and the value it sends is the one the fallback gave.
C14_CacheFailureIsMiss ==
    /\ \A r \in Readers :
          (rs[r].cacheFailed /\ rs[r].pc = "done") =>
              /\ ~rs[r].hit
              /\ rs[r].upstream_calls + rs[r].db_reads = 1
              /\ rs[r].status = "error" =>
                    (rs[r].dbRaised \/ rs[r].upstream_calls = 1)
    /\ (sess.cacheFailed /\ sess.pc \in {"error", "send", "sleeping"}) =>
          sess.fellBack

C14_Witness ==
    /\ \E r \in Readers :
          /\ rs[r].cacheFailed
          /\ rs[r].pc = "done"
          /\ rs[r].status = "ok"
          /\ Len(rs[r].result.marketwatch) > 0
          /\ IsJunk(cache.snapshot.val)
    /\ sess.cacheFailed
    /\ sess.pc = "sleeping"
    /\ IsJunk(cache.pdv[sess.ins_code].val)

\* C15 (SpecRead): the request that started a backfill has returned its
\* response when the task starts, and while the task runs, after it wrote
\* the cache, after it failed and if it never ends, that response is the
\* snapshot the request built from its fallback source and is not an error.
C15_BackfillDetached ==
    \A r \in Readers :
        bf[r].pc # "idle" =>
            /\ rs[r].pc = "done"
            /\ rs[r].status = "ok"
            /\ rs[r].result = bf[r].mw_resp
            /\ ~rs[r].hit

\* the backfill wrote the snapshot and failed at the pipeline
C15_Witness ==
    \E r \in Readers :
        /\ bf[r].pc = "failed"
        /\ rs[r].status = "ok"
        /\ Len(rs[r].result.marketwatch) > 0
        /\ ~IsNone(cache.snapshot.val)
        /\ \A c \in Codes : IsNone(cache.pdv[c].val)

\* C16 (SpecStream): a session that has ended, by a client disconnect, a
\* transport error, an invalid identifier, an upstream or store error or a
\* cancellation of its task, is not in the connection registry; only a
\* session that is running is.
C16_RegistryReleased ==
    /\ sess.pc \in {"closed", "error", "cancelled"} => ~sess.registered
    /\ sess.registered => sess.pc \in Awaiting

\* the store raised at the lookup of a closed-market tick
C16_Witness ==
    /\ sess.pc = "error"
    /\ IsInt(sess.ins_code)
    /\ ~sess.open
    /\ sess.fellBack
    /\ ~sess.registered

\* a pass that ended on a timeout or an error of the upstream
FailedPass(p) == pass[p].pc = "done" /\ ~pass[p].fetched

\* C17 (as claimed, SpecTimely): the scheduler outlives a failed pass, and a
\* failed startup pass is followed by another attempt after a short backoff:
\* once the clock has moved on from the tick of the startup, the loop has
\* attempted a pass.
C17_RetryAfterFailedPass ==
    /\ (\E p \in Runs : FailedPass(p)) =>
           watcher.pc \in {"sleeping", "save_snapshot", "save_additional"}
    /\ (hist.started /\ FailedPass("startup") /\ TimeLT(hist.start, now)) =>
           \E d \in 0..now.day : hist.daily[d] >= 1

\* C18 (as claimed, SpecLife): once the shutdown of the application has
\* completed, the scheduler task has ended and no persistence pass it
\* started, the startup one included, is still in flight.
C18_CleanShutdown ==
    life # "running" =>
        /\ watcher.pc = "cancelled"
        /\ \A p \in Runs : ~PassInFlight(p)

\* C19 (as claimed, SpecStart): at no time are two persistence passes in
\* flight; the pass started at startup and a pass started by the daily
\* trigger never overlap.
C19_OnePassInFlight ==
    ~(PassInFlight("startup") /\ PassInFlight("daily"))

\* the entries the cache holds
Entries ==
    {cache.snapshot, cache.additional} \cup {cache.pdv[c] : c \in Codes}
                     \cup {cache.price[c] : c \in Codes}

\* C20 (SpecCache): whichever writer wrote it (the backfill of a request,
\* a stream session, the mirror of the scheduler), every entry the cache
\* holds carries an expiry, one of the two the writers use.
C20_EveryEntryExpires ==
    \A e \in Entries :
        ~IsNone(e.val) => (e.ex > 0 /\ e.ex \in {REDIS_TTL_SECONDS, SNAPSHOT_EX})

\* a closed market: the startup pass has mirrored its snapshot, the backfill
\* of a request has ended and the session has written the closing price it
\* read from the store
C20_Witness ==
    /\ redis_available = "True"
    /\ pass["startup"].pc = "done"
    /\ pass["startup"].fetched
    /\ \A r \in Readers : bf[r].pc = "done"
    /\ sess.pc = "sleeping"
    /\ ~sess.open
    /\ sess.fellBack
    /\ ~sess.cacheFailed
    /\ sess.value # Num(0)
    /\ ~IsNone(cache.snapshot.val)
    /\ ~IsNone(cache.pdv[sess.ins_code].val)

\* a step of pass p that belongs to a pass whose fetch gave zero records
EmptyFetchStep(p) ==
    /\ pass'[p] # pass[p]
    /\ \/ /\ pass[p].pc = "fetching"
          /\ pass'[p].fetched
          /\ Len(pass'[p].data_dict.marketwatch) = 0
       \/ /\ pass[p].pc \in {"mirror_snapshot", "mirror_pdv"}
          /\ Len(pass[p].data_dict.marketwatch) = 0

\* C21 (as claimed, SpecTimely): a pass whose fetch gave zero records
\* writes nothing: none of its steps changes the durable store, the cached
\* snapshot or a per-instrument key.
C21_EmptyFetchWritesNothing ==
    [][\A p \in Runs : EmptyFetchStep(p) => (db' = db /\ cache' = cache)]_vars

\* the market is closed at the instant t of the Tehran clock
ClosedAt(t) ==
    \/ weekday(t.day) \notin TRADING_DAYS
    \/ t.tod < OpenTick
    \/ t.tod > CloseTick

NoDailyPassYet == \A d \in DOMAIN hist.daily : hist.daily[d] = 0

C23_LiveFetchErrorPropagates ==
    \A r \in Readers :
        rs[r].upRaised =>
            /\ rs[r].pc = "done"
            /\ rs[r].open
            /\ ~rs[r].hit
            /\ rs[r].status = "error"
            /\ rs[r].db_reads = 0
            /\ rs[r].upstream_calls = 1
            /\ bf[r].pc = "idle"

\* the store holds a snapshot and the cache held nothing for the request
C23_Witness ==
    \E r \in Readers :
        /\ rs[r].upRaised
        /\ rs[r].status = "error"
        /\ ~rs[r].cacheFailed
        /\ Len(db) > 0
        /\ IsNone(cache.snapshot.val)

\* C24 (as claimed, SpecTimely): the last-persisted date is set only after
\* a pass that committed a snapshot: whenever the watcher sleeps with a date
\* set, the daily pass it awaited last (the one of that date) fetched its
\* records and committed them.
C24_DateOnlyAfterCommit ==
    (watcher.pc = "sleeping" /\ ~IsNone(watcher.last_snapshot_date)) =>
        /\ pass["daily"].pc = "done"
        /\ pass["daily"].fetched
        /\ pass["daily"].ret > 0

\* C25 (as claimed, SpecTimely): a pass that has written its snapshot of
\* one or more records to the snapshot key of the cache committed that
\* snapshot to the durable store before.
C25_MirrorOnlyAfterCommit ==
    \A p \in Runs :
        (pass[p].pc = "mirror_pdv" /\ Len(pass[p].data_dict.marketwatch) > 0) =>
            /\ pass[p].ret = Len(pass[p].data_dict.marketwatch)
            /\ InsCodes(get_market_watch_from_db(db)) =
                   InsCodes(Validate(pass[p].data_dict))

\* the cache holds the snapshot mw and one hot key per record of it, all
\* with the configured time to live
Backfilled(mw) ==
    /\ cache.snapshot = CacheEntry(orjson_dumps(model_dump(mw)),
                                   REDIS_TTL_SECONDS)
    /\ \A c \in InsCodes(mw) :
          cache.pdv[c] = CacheEntry(py_str(Num(LastPdv(mw, c))),
                                    REDIS_TTL_SECONDS)

\* C26 (as claimed, SpecExtra): the backfill that a miss of the endpoint
\* with additional data scheduled, once it has run without an error, has
\* set the snapshot key and one hot key per record of the snapshot.
C26_BackfillSetsAllKeys ==
    \A r \in Readers :
        (bf[r].pc = "done" /\ ~rs[r].hit) => Backfilled(bf[r].mw_resp)

\* the close instants of the days of a run and of the day after the last
CloseInstants == {Time(d, CloseTick) : d \in 0..(MaxDay + 1)}

\* c is the earliest close instant strictly later than t
EarliestCloseAfter(c, t) ==
    /\ c \in CloseInstants
    /\ TimeLT(t, c)
    /\ \A e \in CloseInstants : TimeLT(t, e) => TimeGE(e, c)

\* C27 (SpecBoot): whenever the daily loop computes the instant to sleep
\* until, that instant is the earliest close instant strictly later than
\* now, today's close before it and tomorrow's at or after it, so that the
\* sleep is never empty.
C27_SleepsUntilNextClose ==
    [][watcher'.target # watcher.target =>
          /\ EarliestCloseAfter(watcher'.target, now)
          /\ watcher'.target.day =
                 IF now.tod < CloseTick THEN now.day ELSE now.day + 1]_vars

\* the loop went to sleep exactly at a close and waits for tomorrow's
C27_Witness ==
    /\ watcher.pc = "sleeping"
    /\ watcher.last_snapshot_date = Num(now.day)
    /\ now.tod = CloseTick
    /\ watcher.target = Time(now.day + 1, CloseTick)

\* the daily pass of today has committed its rows and the loop has noted
\* today as the last persisted date
SavedToday ==
    /\ watcher.last_snapshot_date = Num(now.day)
    /\ pass["daily"].pc = "done"
    /\ pass["daily"].ret > 0

\* C28 (SpecRestart): a process started while the market is closed, on a
\* date on which the daily pass of the process before it committed, knows no
\* last persisted date and starts a persistence pass of its own on that
\* date.
C28_RestartPersistsAgain ==
    [][(life = "exited" /\ life' = "running" /\ SavedToday
            /\ ~is_market_open(now)) =>
          /\ watcher'.last_snapshot_date = None
          /\ pass'["startup"].pc = "fetching"
          /\ now' = now]_vars

\* the first process started with the market open and on an empty store, so
\* the rows are those of the close of that day; the pass in flight is the
\* one of the process started after it, on the same day
C28_Witness ==
    /\ is_market_open(hist.start)
    /\ now.day = hist.start.day
    /\ ~is_market_open(now)
    /\ Len(db) > 0
    /\ hist.atClose[now.day] = 1
    /\ life = "running"
    /\ watcher.last_snapshot_date = None
    /\ pass["startup"].pc = "fetching"

\* the loop has dealt with every close up to now and sleeps for a later one
AsleepForLater == watcher.pc = "sleeping" /\ TimeLT(now, watcher.target)

\* C29 (SpecTimely): the daily trigger has started a persistence pass at the
\* close of every calendar day whose close the process has lived through,
\* whether the day is a trading day or not, and the records such a pass
\* committed on a non-trading day are the rows of the store.
C29_FiresEveryCalendarDay ==
    /\ \A d \in Days :
          (/\ hist.started
           /\ TimeLT(hist.start, Time(d, CloseTick))
           /\ TimeGE(now, Time(d, CloseTick))
           /\ AsleepForLater) => hist.atClose[d] = 1
    /\ (/\ weekday(now.day) \notin TRADING_DAYS
        /\ watcher.pc = "save_additional"
        /\ pass["daily"].ret > 0) =>
           /\ Len(db) = pass["daily"].ret
           /\ InsCodes(get_market_watch_from_db(db)) =
                  InsCodes(hist.persisted)

\* the pass of the close of a non-trading day has replaced the rows
C29_Witness ==
    /\ weekday(now.day) \notin TRADING_DAYS
    /\ hist.atClose[now.day] = 1
    /\ watcher.pc = "save_additional"
    /\ pass["daily"].ret > 0
    /\ Len(db) > 0

\* the entry of the hot key that belongs to the market state of the tick
BranchEntry(open) ==
    IF open THEN cache.price[sess.ins_code] ELSE cache.pdv[sess.ins_code]

\* C30 (SpecStream): a tick of the session reads the live-price key when the
\* market is open and the last-close key when it is closed, and answers
\* from that key alone; the backfill of an open tick writes the live-price
\* key and leaves every last-close key as it is, the backfill of a closed
\* tick writes the last-close key and leaves every live-price key as it is,
\* and the other steps of a tick write no key.
C30_HotKeyByMarketState ==
    [][sess' # sess =>
          /\ (sess.pc = "tick" /\ sess'.pc = "send") =>
                 /\ ~IsNone(BranchEntry(is_market_open(now)).val)
                 /\ sess'.value =
                        py_float(BranchEntry(is_market_open(now)).val)
          /\ (sess.pc = "tick" /\ sess'.pc \in {"get_price", "db_lookup"}) =>
                 /\ sess'.pc = "get_price" <=> is_market_open(now)
                 /\ sess'.cacheFailed
                        \/ IsNone(BranchEntry(is_market_open(now)).val)
          /\ sess.pc \in {"get_price", "set_price"} => sess.open
          /\ sess.pc \in {"db_lookup", "set_pdv"} => ~sess.open
          /\ sess.open => cache'.pdv = cache.pdv
          /\ ~sess.open => cache'.price = cache.price
          /\ sess.pc \notin {"set_price", "set_pdv"} => cache' = cache]_vars

\* an open tick answered from the live-price key while the last-close key
\* of the instrument holds another text
C30_Witness ==
    /\ sess.pc = "send"
    /\ sess.open
    /\ ~sess.fellBack
    /\ ~IsNone(cache.price[sess.ins_code].val)
    /\ ~IsNone(cache.pdv[sess.ins_code].val)
    /\ cache.price[sess.ins_code].val # cache.pdv[sess.ins_code].val
    /\ sess.value = py_float(cache.price[sess.ins_code].val)

\* the states of a tick before its value has gone out
Reading == {"tick", "get_price", "set_price", "db_lookup", "set_pdv", "send"}

\* C31 (SpecStream): in a tick of the session one value goes out, the value
\* the read of that tick ended with, and the suspension follows it at once;
\* a read starts only after a connect or when a suspension has ended; the
\* loop is left only on a disconnect or a transport error at the send or on
\* an error of the read's fallback (the cancellation of the handler's task
\* apart).
C31_OneSendPerTick ==
    [][sess' # sess =>
          /\ sess.pc \in Reading => IsNone(sess.sent)
          /\ sess'.pc = "sleeping" =>
                 /\ sess.pc = "send"
                 /\ ~IsNone(sess.value)
                 /\ sess'.sent = py_str(sess.value)
          /\ ~IsNone(sess'.sent) => sess'.pc = "sleeping"
          /\ sess.pc = "send" =>
                 sess'.pc \in {"sleeping", "closed", "error", "cancelled"}
          /\ sess'.pc = "tick" =>
                 sess.pc \in {"idle", "closed", "error", "cancelled",
                              "sleeping"}
          /\ sess.pc = "sleeping" => sess'.pc \in {"tick", "cancelled"}
          /\ (sess.pc \in Awaiting /\ sess'.pc = "closed") =>
                 sess.pc = "send"
          /\ (sess.pc \in Awaiting /\ sess'.pc = "error") =>
                 sess.pc \in {"get_price", "db_lookup", "send"}]_vars

\* a value has gone out after a read that fell back, and the session sleeps
C31_Witness ==
    /\ sess.pc = "sleeping"
    /\ sess.fellBack
    /\ ~IsNone(sess.sent)

\* the identifiers of the rows of a table
StoredCodes(table) == {table[i].insCode : i \in 1..Len(table)}

\* C32 (SpecStore): once a write of a snapshot S has committed, the
\* identifiers of the stored rows are those of S and no others, whatever
\* rows the writes before it had left, and no identifier has two rows.
C32_FullReplace ==
    (txn.pc = "done" /\ txn.ret > 0) =>
        /\ StoredCodes(db) = InsCodes(txn.data)
        /\ Len(db) = Cardinality(StoredCodes(db))

\* a committed write over rows of an identifier the snapshot does not have
C32_Witness ==
    /\ txn.pc = "done" /\ txn.ret > 0
    /\ StoredCodes(txn.before) \ InsCodes(txn.data) # {}
    /\ StoredCodes(db) = InsCodes(txn.data)

\* C33 (SpecServe): a closed-market request whose read of the store raised
\* ends as a service error, with no snapshot and no backfill; the store
\* lookup of a closed-market tick ends in one of three ways: it raised and
\* the session is left with an error and nothing sent, it found the record
\* and the value is the stored one, or it found no record and the value is
\* the zero sentinel.
C33_StoreErrorPropagates ==
    [][/\ \A r \in Readers :
            (rs[r].pc = "db_read" /\ rs'[r] # rs[r]) =>
               IF rs'[r].dbRaised
               THEN /\ rs'[r].pc = "done" /\ rs'[r].status = "error"
                    /\ rs'[r].result = RSIdle.result
                    /\ bf'[r] = bf[r]
               ELSE /\ rs'[r].status = "ok"
                    /\ rs'[r].result = ClosedMarketSnapshot(db)
       /\ (sess.pc = "db_lookup" /\ sess' # sess) =>
            \/ sess'.pc \in {"error", "cancelled"}
                  /\ IsNone(sess'.value) /\ IsNone(sess'.sent)
                  /\ ~sess'.registered
            \/ /\ sess'.pc = "set_pdv"
               /\ sess'.value = get_pdv_by_ins_code(db, sess.ins_code)
               /\ ~IsNone(sess'.value)
            \/ /\ sess'.pc = "send"
               /\ sess'.value = Num(0)
               /\ IsNone(get_pdv_by_ins_code(db, sess.ins_code))]_vars

\* a session left with an error at the lookup of an instrument the store
\* holds, after a request that failed at its store read
C33_Witness ==
    /\ sess.pc = "error"
    /\ sess.fellBack /\ ~sess.open
    /\ ~IsNone(get_pdv_by_ins_code(db, sess.ins_code))
    /\ \E r \in Readers : rs[r].dbRaised /\ rs[r].status = "error"

\* the text of the zero sentinel, as a hot key would hold it
ZeroText == py_str(Num(0))

\* C34 (SpecStream): no hot key ever holds the zero sentinel, and a tick
\* whose lookup found no record leaves the cache as it is; so a closed tick
\* that begins after the startup pass has committed the record of its
\* instrument has the persisted value, not a zero cached by a tick before.
C34_SentinelNeverCached ==
    /\ \A c \in Codes :
          /\ cache.pdv[c].val # ZeroText
          /\ cache.price[c].val # ZeroText
    /\ sess.pc \in {"set_price", "set_pdv"} =>
          ~IsNone(sess.value) /\ sess.value # Num(0)
    /\ (/\ sess.pc \in {"send", "sleeping"}
        /\ ~sess.open
        /\ sess.rdStart = "after"
        /\ sess.ins_code \in InsCodes(hist.persisted)) =>
           sess.value = Num(LastPdv(hist.persisted, sess.ins_code))

\* the sentinel has gone out for an instrument that neither the store nor
\* the hot key holds
C34_Witness ==
    /\ sess.pc = "sleeping"
    /\ ~sess.open /\ sess.fellBack
    /\ sess.sent = ZeroText
    /\ sess.ins_code \in Codes
    /\ IsNone(cache.pdv[sess.ins_code].val)
    /\ IsNone(get_pdv_by_ins_code(db, sess.ins_code))

\* request r missed the cache and has returned a snapshot
Missed(r) == rs[r].pc = "done" /\ rs[r].status = "ok" /\ ~rs[r].hit

\* the backfill task of r has run to its end without an error
Finished(r) == bf[r].pc = "done"

\* C35 (SpecPair): of two requests under way at a time, each one that
\* missed the cache has asked its own fallback source once, has returned
\* what that source gave it and has a backfill task of its own for that
\* snapshot; the snapshot key holds nothing or the whole blob of the
\* snapshot of the last backfill that set it, and once the backfills of two
\* misses have finished without an error that blob is the one of either of
\* the two.
C35_IndependentReads ==
    /\ \A r \in Pair :
          Missed(r) =>
             /\ rs[r].upstream_calls + rs[r].db_reads = 1
             /\ bf[r].pc # "idle"
             /\ bf[r].mw_resp = rs[r].result
    /\ \/ IsNone(cache.snapshot.val)
       \/ cache.snapshot.val = orjson_dumps(model_dump(hist.cached))
    /\ (\A r \in Pair : Missed(r) /\ Finished(r)) =>
          \/ IsNone(cache.snapshot.val)
          \/ \E r \in Pair :
                cache.snapshot.val = orjson_dumps(model_dump(bf[r].mw_resp))

\* two misses with different snapshots, both backfills through, the key
\* holding the blob of the second
C35_Witness ==
    /\ \A r \in Pair : Missed(r) /\ bf[r].pc = "done"
    /\ rs["r1"].upstream_calls = 1 /\ rs["r2"].upstream_calls = 1
    /\ rs["r1"].result # rs["r2"].result
    /\ cache.snapshot.val = orjson_dumps(model_dump(rs["r2"].result))

\* the startup pass of a start before the close of day d has committed and
\* the loop has dealt with that close
StartupPassThenClose(d) ==
    /\ hist.started
    /\ hist.start.day = d /\ hist.start.tod < CloseTick
    /\ watcher.last_market_open = "False"
    /\ pass["startup"].pc = "done" /\ pass["startup"].ret > 0
    /\ TimeGE(now, Time(d, CloseTick))
    /\ AsleepForLater

\* C36 (SpecBoot): the last persisted date changes at one step only, the
\* one that ends a turn of the daily loop after its pass; no step of the
\* startup code or of the startup pass changes it.  So when the startup
\* pass of a process started before the close of a day has committed, the
\* daily trigger still starts its pass at the close of that day.
C36_StartupPassLeavesDate ==
    [][/\ watcher'.last_snapshot_date # watcher.last_snapshot_date =>
            /\ watcher.pc = "save_additional"
            /\ pass' = pass
       /\ \A d \in Days :
            StartupPassThenClose(d)' => hist'.atClose[d] = 1]_vars

\* the startup pass committed before the close of the day, the daily pass
\* of that close has run as well
C36_Witness ==
    /\ hist.started
    /\ hist.start.day = now.day /\ hist.start.tod < CloseTick
    /\ pass["startup"].pc = "done" /\ pass["startup"].ret > 0
    /\ hist.atClose[now.day] = 1
    /\ watcher.last_snapshot_date = Num(now.day)
    /\ AsleepForLater

\* the records of a merged snapshot are tagged with the segment they came
\* from, and there are as many of them as the segments gave
TaggedBySegment ==
    LET out == up.result.data.marketwatch
        n == Len(up.seg["stock_market"].items)
    IN /\ Len(out) = n + Len(up.seg["base_market"].items)
       /\ \A i \in 1..Len(out) :
             out[i].market_type =
                 IF i <= n THEN "stock_market" ELSE "base_market"

\* C37 (as claimed, SpecFetch): a snapshot that the merge of the segments
\* gives holds every instrument identifier at most once, each of its records
\* carries the tag of the segment it was fetched from, and its length is
\* the sum of the lengths of the segments.
C37_MergedIdsUnique ==
    (up.pc = "done" /\ up.result.ok) =>
        /\ TaggedBySegment
        /\ \A i, j \in 1..Len(up.result.data.marketwatch) :
              up.result.data.marketwatch[i].insCode =
                  up.result.data.marketwatch[j].insCode => i = j

\* C38 (SpecServe): once a connection attempt of get_redis has failed, the
\* cache stays unavailable for good: no later call gets a client, so no
\* step writes a key, every request takes its fallback source and every tick
\* of a session its fallback.
C38_UnavailabilityLatched ==
    [][redis_available = "False" =>
          /\ redis_available' = "False"
          /\ cache' = cache
          /\ \A r \in Readers :
                (rs[r].pc \in {"idle", "done"} /\ rs'[r] # rs[r]) =>
                   /\ ~rs'[r].hit
                   /\ rs'[r].cacheFailed
                   /\ rs'[r].pc \in {"fetching", "db_read"}
          /\ (sess.pc = "tick" /\ sess' # sess) =>
                sess'.pc \in {"get_price", "db_lookup", "cancelled"}]_vars

\* with the cache latched away a request has been served from its fallback,
\* its backfill has ended without a write, and a tick has fallen back too
C38_Witness ==
    /\ redis_available = "False"
    /\ cache = EmptyCache
    /\ \E r \in Readers :
          /\ rs[r].pc = "done" /\ rs[r].status = "ok" /\ ~rs[r].hit
          /\ bf[r].pc = "done"
    /\ sess.pc = "sleeping" /\ sess.fellBack

\* C39 (SpecDaily): in a daily turn the additional-data step starts only
\* when the snapshot pass has returned, and it starts after a pass that
\* failed as well; whatever the additional-data step ends with, a failed
\* store write included, the rows of the instruments table stay as the pass
\* left them; the last persisted date changes only when both have returned.
C39_DailyStepsInOrder ==
    [][/\ (watcher.pc = "save_snapshot" /\ watcher' # watcher) =>
            /\ pass["daily"].pc = "done"
            /\ watcher'.pc = "save_additional"
            /\ watcher'.add = "none"
            /\ watcher'.last_snapshot_date = watcher.last_snapshot_date
       /\ (watcher.pc = "save_snapshot" /\ pass["daily"].pc = "done") =>
            ENABLED WatcherSaveAdditional
       /\ (watcher.add = "none" /\ watcher'.add # "none") =>
            /\ watcher.pc = "save_additional"
            /\ db' = db
            /\ pass' = pass
            /\ watcher'.last_snapshot_date = watcher.last_snapshot_date
       /\ watcher'.last_snapshot_date # watcher.last_snapshot_date =>
            /\ pass["daily"].pc = "done"
            /\ watcher.pc = "save_additional"
            /\ watcher.add \in AdditionalOutcomes]_vars

\* the pass committed its rows, the store write of the additional data
\* failed, the rows are still there and the date is not set yet
C39_Witness ==
    /\ watcher.pc = "save_additional"
    /\ watcher.add = "save_failed"
    /\ pass["daily"].pc = "done" /\ pass["daily"].ret > 0
    /\ Len(db) = pass["daily"].ret
    /\ watcher.last_snapshot_date # Num(now.day)

\* the answer of reader r, when it has one, has one item for each record of
\* the snapshot, in the order of the snapshot and with the fields of the
\* record; the item carries an additional-data record of the same
\* instrument when the additional data have one and None when they have not
MergedByInstrument(r) ==
    (rs[r].pc = "done" /\ rs[r].status = "ok") =>
        LET mw == rs[r].result.marketwatch
            add == rs[r].additional_data[2].additional_data
            out == rs[r].merged
        IN /\ Len(out) = Len(mw)
           /\ \A i \in 1..Len(mw) :
                /\ DOMAIN out[i] = DOMAIN mw[i] \cup {"additional_data"}
                /\ \A k \in DOMAIN mw[i] : out[i][k] = mw[i][k]
                /\ IF \E j \in 1..Len(add) : add[j].insCode = mw[i].insCode
                   THEN /\ ~IsNone(out[i].additional_data)
                        /\ out[i].additional_data[2].insCode = mw[i].insCode
                        /\ \E j \in 1..Len(add) :
                               add[j] = out[i].additional_data[2]
                   ELSE IsNone(out[i].additional_data)

\* C40 (SpecExtra): the answer of GET /marketwatch-with-additional-data has
\* exactly one item per record of the snapshot, in snapshot order, each with
\* the additional-data record of its instrument or None; additional-data
\* records of other instruments appear nowhere in it; no step of the
\* handler changes the store or a key of the cache.
C40_MergeByInstrument ==
    [][/\ \A r \in Readers : MergedByInstrument(r)'
       /\ rs' # rs => (db' = db /\ cache' = cache)]_vars

\* an answer with one item that carries its record and one that carries
\* None, from additional data that also had a record of a third instrument
C40_Witness ==
    \E r \in Readers :
        /\ rs[r].pc = "done" /\ rs[r].status = "ok"
        /\ \E i, k \in 1..Len(rs[r].merged) :
              /\ ~IsNone(rs[r].merged[i].additional_data)
              /\ IsNone(rs[r].merged[k].additional_data)
        /\ \E j \in 1..Len(rs[r].additional_data[2].additional_data) :
              rs[r].additional_data[2].additional_data[j].insCode
                  \notin InsCodes(rs[r].result)

====
